---- MODULE Spec2Model ----
(***************************************************************************)
(* Offline-first synchronisation engine of gymlog                          *)
(* (apps/mobile/src/lib/stores/sync.ts with the auth store that drives it).*)
(*                                                                         *)
(* Every invocation of the async functions sync() and fullSync() is a      *)
(* call slot with its own position (pc) and its own local `pending`.       *)
(* A step of the model is what runs between two awaits of the code.        *)
(***************************************************************************)
EXTENDS Integers, Sequences, FiniteSets, Bags, TLC

\* ---------------------------------------------------------------- bounds
NumCalls == 2       \* call slots for overlapping sync()/fullSync() invocations
MaxOutboxId == 2    \* queueChange calls per run (auto-increment key ceiling)
MaxClock == 2       \* Date.now() returns a reading in 1..MaxClock
MaxTables == 2      \* tables carried by one pull / full response
MaxRec == 1         \* record ids 1..MaxRec per table in the store-level specifications
NumOps == 2         \* local-store operations in progress at once
MaxSets == 1        \* sets passed to one completeWorkoutLocal()
MaxWrites == 2      \* domain-table writes committed per run
MaxLocalIds == 3    \* generateLocalId() calls per process
MaxProg == 2        \* programme ids 1..MaxProg in a push batch
MaxBatch == 3       \* changes in one push batch
MaxTemplates == 2   \* templates in db.templates
MaxWorkouts == 4    \* workouts in db.workouts
MaxTime == 3        \* completed_at instants 1..MaxTime
MaxDone == 2        \* workouts in db.workouts when a session page loads
MaxPositions == 2   \* set positions of one exercise
MaxQueue == 3       \* Outbox entries waiting when a programme is saved or activated
MaxEditQueue == 5   \* Outbox entries waiting when a template is saved or anything deleted
MaxDays == 2        \* days of the week 1..MaxDays in a template's day list
MaxSyncs == 1       \* sync() runs beside the store mutations
MaxExercises == 2   \* exercises on the session page
MaxSetsShown == 3   \* sets of one exercise on the session page
MaxActiveKey == 4   \* auto-increment keys of db.activeWorkout
NumFinish == 2      \* finishWorkout() invocations in progress at once
MaxEdits == 3       \* edits the user makes on one visit of the session page
MaxUnsettled == 0   \* finishWorkout() invocations still running when the page reopens
MaxRounds == 2      \* sync() calls, one after the other, beside the delete buttons
MaxHistory == 2     \* completed workouts in db.workouts when the programme page loads
MaxNow == 4         \* last Date.now() reading of the programme page

\* ------------------------------------------------------ program constants
MAX_RETRIES == 3
\* bug variant: a wrong last backoff delay
RETRY_DELAYS_Short == <<1000, 3000, 5000>>
RETRY_DELAYS == <<1000, 3000, 10000>>
ERROR_RESET_DELAY == 10000

Calls == 1..NumCalls

\* Date.now(): the wall clock, which a time correction may set back between
\* two readings, so successive readings are in no particular order
Clock == 1..MaxClock
SyncPcs == {"s_read", "s_push", "s_count", "s_pull", "s_apply"}
FullPcs == {"f_fetch", "f_apply"}

VARIABLES
    user,               \* auth store: "none" (null) | "local" (isLocal) | "authed"
    onLine,             \* navigator.onLine
    listening,          \* initSync() has registered the online/offline listeners
    syncStatus,         \* 'idle' | 'syncing' | 'error'
    pendingChanges,     \* visible pending counter
    retryCount,
    retryTimeout,       \* 0: no retry timer pending, else the delay it was armed with
    errorResetTimeout,  \* 0: no error-reset timer pending, else its delay
    syncInProgress,
    outbox,             \* db.outbox: set of rows [id, createdAt]
    nextOutboxId,       \* the ++id auto-increment key of db.outbox
    lastSync,           \* localStorage 'lastSync'; 0 when absent
    pc,                 \* position of each call slot
    pending,            \* sync()'s local `pending` of each call slot (<< >> once dead)
    tablesLeft,         \* tables of the response still to be written, per slot
    qpc,                \* position of the queueChange in progress
    lpc,                \* position of the logout in progress
    ret,                \* value the step just taken resolved a sync()/fullSync() to
    ev,                 \* what the step just taken consumed: <<request, outcome>>
    called,             \* which of sync() / fullSync() the step just taken called
    failedAttempts      \* consecutive attempts that ended in the catch of sync()

VARIABLES
    tables,             \* the Dexie domain tables: table name -> ids of its records
    server,             \* the server's rows of this user: response key -> ids
    fsync,              \* the fullSync() whose table loop is followed table by table
    atCall,             \* `tables` as it was when that fullSync() was called
    localIdCounter,     \* sync.ts `let localIdCounter`
    ops,                \* the local-store operations in progress, per slot
    committed,          \* bag of the domain-table writes committed so far
    issued,             \* values generateLocalId() returned in this process
    srv,                \* the server's SQLite tables: table -> set of rows
    changes,            \* `changes` of the push request being delivered
    delivered,          \* how many times the server has processed that request
    afterOnce,          \* `srv` as the first delivery left it
    pulled,             \* `changes` of the pull response, once the client has applied it
    dbTemplates,        \* db.templates rows [id, programme_id]
    dbWorkouts,         \* db.workouts rows [id, user_id, template_id, completed_at]
    progress            \* << >>, or the CycleProgress calculateCycleProgress() returned

VARIABLES
    dbProgrammes,       \* db.programmes rows [id, user_id, is_active]
    dbSets,             \* db.sets rows [workout_id, exercise_id, set_number, weight, reps]
    templateExercise,   \* the db.templateExercises row of the viewed template
    prefill,            \* << >>, or what loadWorkoutData() built for that exercise
    dbTemplateExercises, \* db.templateExercises rows
    dbSchedule,         \* db.schedule rows
    queue,              \* db.outbox in key order, entries with their data
    flight,             \* the sync() in flight: position, batch read, pull response
    cascade,            \* id of the programme the step just taken deleted, or 0
    activeWorkout,      \* db.activeWorkout: its rows and its key generator
    page,               \* the session page of the viewed template
    finishing           \* the finishWorkout() invocations in progress

syncVars == <<user, onLine, listening, syncStatus, pendingChanges, retryCount,
              retryTimeout, errorResetTimeout, syncInProgress, outbox, nextOutboxId,
              lastSync, pc, pending, tablesLeft, qpc, lpc, ret, ev,
              called, failedAttempts>>

\* the part of the state the synchronisation engine's own steps leave alone
recorderVars == <<localIdCounter, ops, committed, issued>>
pushVars == <<srv, changes, delivered, afterOnce, pulled>>
cycleVars == <<dbTemplates, dbWorkouts, progress>>
resolverVars == <<dbProgrammes, dbSets, templateExercise, prefill>>

\* the state of the views and stores built on the local store
contentVars == <<dbTemplateExercises, dbSchedule, queue, flight, cascade>>
sessionVars == <<activeWorkout, page, finishing>>
laterVars == <<resolverVars, contentVars, sessionVars>>
extraVars == <<tables, server, fsync, atCall, recorderVars, pushVars, cycleVars, laterVars>>

\* what the table-by-table fullSync() leaves alone besides the engine's state
outsideFullSync == <<recorderVars, pushVars, cycleVars, laterVars>>

\* what the local-store operations leave alone besides the engine's state
outsideRecorder == <<server, fsync, atCall, pushVars, cycleVars, laterVars>>

\* what the server's sync endpoints leave alone
outsidePush == <<syncVars, tables, server, fsync, atCall, recorderVars, cycleVars, laterVars>>

\* what calculateCycleProgress() leaves alone
outsideCycle == <<syncVars, tables, server, fsync, atCall, recorderVars, pushVars, laterVars>>

\* what loading a session page leaves alone
outsideResolver == <<syncVars, tables, server, fsync, atCall, recorderVars, pushVars,
                     contentVars, sessionVars>>

\* what the programme and template operations and the sync beside them leave alone
outsideContent == <<syncVars, tables, server, fsync, atCall, ops, committed,
                    changes, delivered, afterOnce, pulled,
                    dbWorkouts, progress, dbSets, templateExercise, prefill,
                    sessionVars>>

\* what the session page leaves alone
outsideSession == <<syncVars, tables, server, fsync, atCall, ops, committed, pushVars,
                    dbTemplates, progress, dbProgrammes, templateExercise, prefill,
                    dbTemplateExercises, dbSchedule, flight, cascade>>

\* what the programme page's tracker leaves alone
outsideTracker == <<syncVars, tables, server, fsync, atCall, recorderVars, pushVars,
                    dbTemplates, dbProgrammes, templateExercise, prefill,
                    dbTemplateExercises, dbSchedule, flight, cascade, sessionVars>>

vars == <<syncVars, extraVars>>

\* --------------------------------------------------------------- helpers

\* Dexie orderBy('createdAt'): ascending index key, ties by primary key.
Before(a, b) ==
    \/ a.createdAt < b.createdAt
    \/ a.createdAt = b.createdAt /\ a.id < b.id

RECURSIVE OrderByCreatedAt(_)
OrderByCreatedAt(rows) ==
    IF rows = {} THEN << >>
    ELSE LET first == CHOOSE r \in rows : \A o \in rows \ {r} : Before(r, o)
         IN  <<first>> \o OrderByCreatedAt(rows \ {first})

Ids(batch) == {batch[i].id : i \in 1..Len(batch)}

\* bug variant: the whole table is cleared after a push (outbox.clear())
BulkDeleteAll(rows, ids) == {}

\* db.outbox.bulkDelete(ids)
BulkDelete(rows, ids) == {r \in rows : r.id \notin ids}

\* bug variant: the isLocal test is forgotten
isAuthenticatedAnyUser == user # "none"

isAuthenticated == user # "none" /\ user # "local"

\* bug variant: the single-flight guard is missing
InFlightNever == FALSE

\* the `if (syncInProgress) return false` guard
InFlight == syncInProgress

FreeSlot == CHOOSE p \in Calls : pc[p] = "idle" /\ \A q \in Calls : pc[q] = "idle" => p <= q
HasFreeSlot == \E p \in Calls : pc[p] = "idle"

SyncInit ==
    /\ user = "none"
    /\ onLine \in BOOLEAN
    /\ listening = FALSE
    /\ syncStatus = "idle"
    /\ pendingChanges = 0
    /\ retryCount = 0
    /\ retryTimeout = 0
    /\ errorResetTimeout = 0
    /\ syncInProgress = FALSE
    /\ outbox = {}
    /\ nextOutboxId = 1
    /\ lastSync = 0
    /\ pc = [p \in Calls |-> "idle"]
    /\ pending = [p \in Calls |-> << >>]
    /\ tablesLeft = [p \in Calls |-> 0]
    /\ qpc = "idle"
    /\ lpc = "idle"
    /\ ret = "none"
    /\ ev = << >>
    /\ called = "none"
    /\ failedAttempts = 0

\* ------------------------------------------------------------ local store

\* the domain tables of GymLogDatabase (db/index.ts)
LocalTables == {"exercises", "programmes", "templates", "templateExercises",
                "schedule", "workouts", "sets", "progression"}

\* the keys of the body of GET /api/sync/full, in the order Object.entries()
\* yields them
FullKeys == <<"exercises", "programmes", "templates", "templateExercises",
              "schedule", "workouts", "sets">>

RecIds == 1..MaxRec

Range(seq) == {seq[i] : i \in 1..Len(seq)}

\* fsync: the response keys still to be written, the response body, and
\* whether the next await of the loop is the clear() or the bulkPut()
NoFullSync == [left |-> << >>, data |-> << >>, phase |-> "clear"]

StoreInit ==
    /\ tables = [t \in LocalTables |-> {}]
    /\ server = [k \in Range(FullKeys) |-> {}]
    /\ fsync = NoFullSync
    /\ atCall = tables

Slots == 1..NumOps

NoOp == [kind |-> "none", pc |-> "idle", w |-> << >>, n |-> 0, wid |-> 0]

RecorderInit ==
    /\ localIdCounter = -1
    /\ ops = [s \in Slots |-> NoOp]
    /\ committed = EmptyBag
    /\ issued = << >>

\* the tables POST /api/sync/push writes and GET /api/sync/pull returns
ServerTables == {"programmes", "templates", "templateExercises", "schedule",
                 "workouts", "sets"}

EmptyStore == [t \in ServerTables |-> {}]

PushInit ==
    /\ srv = EmptyStore
    /\ changes = << >>
    /\ delivered = 0
    /\ afterOnce = EmptyStore
    /\ pulled = [done |-> FALSE, changes |-> EmptyStore]

CycleInit ==
    /\ dbTemplates = {}
    /\ dbWorkouts = {}
    /\ progress = << >>

NoTemplateExercise == [exercise_id |-> 0, sets_data |-> << >>, increment |-> 0]

ResolverInit ==
    /\ dbProgrammes = {}
    /\ dbSets = {}
    /\ templateExercise = NoTemplateExercise
    /\ prefill = << >>

NoFlight == [pc |-> "idle", pending |-> << >>, resp |-> EmptyStore, n |-> 0]

ContentInit ==
    /\ dbTemplateExercises = {}
    /\ dbSchedule = {}
    /\ queue = << >>
    /\ flight = NoFlight
    /\ cascade = 0

ClosedPage ==
    [open |-> FALSE, version |-> "none", workoutId |-> 0, activeWorkoutId |-> 0,
     exercises |-> << >>, edits |-> 0]

NoFinish == [pc |-> "idle", sets |-> << >>, workoutId |-> 0]

SessionInit ==
    /\ activeWorkout = [rows |-> {}, lastKey |-> 0]
    /\ page = ClosedPage
    /\ finishing = [f \in 1..NumFinish |-> NoFinish]

LaterInit == ResolverInit /\ ContentInit /\ SessionInit

Init == SyncInit /\ StoreInit /\ RecorderInit /\ PushInit /\ CycleInit /\ LaterInit

\* ------------------------------------------------------------- sync()

\* sync() up to its first await, called in slot p
SyncCall(p) ==
    /\ called' = "sync"
    /\ IF ~isAuthenticated \/ InFlight
       THEN /\ ret' = "false"
            /\ UNCHANGED <<syncInProgress, syncStatus, errorResetTimeout, pc>>
       ELSE /\ syncInProgress' = TRUE
            /\ syncStatus' = "syncing"
            /\ errorResetTimeout' = 0
            /\ pc' = [pc EXCEPT ![p] = "s_read"]
            /\ ret' = "none"

\* syncIfOnline()
SyncIfOnline(p) ==
    IF onLine /\ isAuthenticated
    THEN SyncCall(p)
    ELSE /\ ret' = "none"
         /\ called' = "none"
         /\ UNCHANGED <<syncInProgress, syncStatus, errorResetTimeout, pc>>

\* RETRY_DELAYS[retryCount] || RETRY_DELAYS[RETRY_DELAYS.length - 1]  (0-based n)
RetryDelay(n) ==
    IF n + 1 <= Len(RETRY_DELAYS) THEN RETRY_DELAYS[n + 1]
    ELSE RETRY_DELAYS[Len(RETRY_DELAYS)]

\* bug variant: the ceiling test is off by one (retryCount > MAX_RETRIES)
ScheduleRetryOffByOne ==
    IF retryCount > MAX_RETRIES
    THEN /\ syncStatus' = "error"
         /\ errorResetTimeout' = ERROR_RESET_DELAY
         /\ retryCount' = 0
         /\ UNCHANGED retryTimeout
    ELSE /\ retryTimeout' = RetryDelay(retryCount)
         /\ retryCount' = retryCount + 1
         /\ UNCHANGED <<syncStatus, errorResetTimeout>>

\* scheduleRetry()
ScheduleRetry ==
    IF retryCount >= MAX_RETRIES
    THEN /\ syncStatus' = "error"
         /\ errorResetTimeout' = ERROR_RESET_DELAY
         /\ retryCount' = 0
         /\ UNCHANGED retryTimeout
    ELSE /\ retryTimeout' = RetryDelay(retryCount)
         /\ retryCount' = retryCount + 1
         /\ UNCHANGED <<syncStatus, errorResetTimeout>>

\* the catch block of sync()
SyncCatch(p) ==
    /\ syncInProgress' = FALSE
    /\ ScheduleRetry
    /\ pc' = [pc EXCEPT ![p] = "idle"]
    /\ ret' = "false"
    /\ failedAttempts' = (IF retryCount = 0 THEN 0 ELSE failedAttempts) + 1

\* the success tail of sync(): retryCount = 0 ... return true
SyncSucceed(p) ==
    /\ retryCount' = 0
    /\ failedAttempts' = 0
    /\ syncStatus' = "idle"
    /\ syncInProgress' = FALSE
    /\ pc' = [pc EXCEPT ![p] = "idle"]
    /\ ret' = "true"

\* bug variant: a 401 pull is taken for a successful one
PullAcceptedOr401(status) == status \in {"ok", "401"}

\* `pullResponse.ok`: the branch that applies the response and stamps lastSync
PullAccepted(status) == status = "ok"

\* value written by safeSetItem('lastSync', now.toString())
Watermark(t) == t

\* "Sync Now" button: handleSync() -> sync()
ManualSync ==
    /\ HasFreeSlot
    /\ SyncCall(FreeSlot)
    /\ ev' = << >>
    /\ UNCHANGED <<user, onLine, listening, pendingChanges, retryCount, retryTimeout,
                   outbox, nextOutboxId, lastSync, pending, tablesLeft, qpc, lpc,
                   failedAttempts>>
    /\ UNCHANGED extraVars

\* const pending = await db.outbox.orderBy('createdAt').toArray(); then either
\* the push fetch or (nothing to push) the pull fetch is issued
SyncRead(p) ==
    /\ pc[p] = "s_read"
    /\ pending' = [pending EXCEPT ![p] = OrderByCreatedAt(outbox)]
    /\ pc' = [pc EXCEPT ![p] = IF outbox # {} THEN "s_push" ELSE "s_pull"]
    /\ ret' = "none"
    /\ ev' = << >>
    /\ called' = "none"
    /\ UNCHANGED <<user, onLine, listening, syncStatus, pendingChanges, retryCount,
                   retryTimeout, errorResetTimeout, syncInProgress, outbox, nextOutboxId,
                   lastSync, tablesLeft, qpc, lpc, failedAttempts>>
    /\ UNCHANGED extraVars

\* push answered 2xx: bulkDelete of the ids that were sent
PushOk(p) ==
    /\ pc[p] = "s_push"
    /\ outbox' = BulkDelete(outbox, Ids(pending[p]))
    /\ pc' = [pc EXCEPT ![p] = "s_count"]
    /\ ret' = "none"
    /\ pending' = [pending EXCEPT ![p] = << >>]
    /\ ev' = <<"push", "ok">>
    /\ called' = "none"
    /\ UNCHANGED <<user, onLine, listening, syncStatus, pendingChanges, retryCount,
                   retryTimeout, errorResetTimeout, syncInProgress, nextOutboxId,
                   lastSync, tablesLeft, qpc, lpc, failedAttempts>>
    /\ UNCHANGED extraVars

\* updatePendingCount() after the delete, then the pull fetch is issued
PushCounted(p) ==
    /\ pc[p] = "s_count"
    /\ pendingChanges' = Cardinality(outbox)
    /\ pc' = [pc EXCEPT ![p] = "s_pull"]
    /\ ret' = "none"
    /\ ev' = << >>
    /\ called' = "none"
    /\ UNCHANGED <<user, onLine, listening, syncStatus, retryCount,
                   retryTimeout, errorResetTimeout, syncInProgress, outbox, nextOutboxId,
                   lastSync, pending, tablesLeft, qpc, lpc, failedAttempts>>
    /\ UNCHANGED extraVars

\* bug variant: a 401 push is handled like any other failed push
Push401AsFailure(p) ==
    /\ pc[p] = "s_push"
    /\ SyncCatch(p)
    /\ pending' = [pending EXCEPT ![p] = << >>]
    /\ ev' = <<"push", "401">>
    /\ called' = "none"
    /\ UNCHANGED <<user, onLine, listening, pendingChanges, outbox, nextOutboxId,
                   lastSync, tablesLeft, qpc, lpc>>
    /\ UNCHANGED extraVars

\* push answered 401
Push401(p) ==
    /\ pc[p] = "s_push"
    /\ syncStatus' = "idle"
    /\ syncInProgress' = FALSE
    /\ pc' = [pc EXCEPT ![p] = "idle"]
    /\ ret' = "false"
    /\ pending' = [pending EXCEPT ![p] = << >>]
    /\ ev' = <<"push", "401">>
    /\ called' = "none"
    /\ UNCHANGED <<user, onLine, listening, pendingChanges, retryCount,
                   retryTimeout, errorResetTimeout, outbox, nextOutboxId,
                   lastSync, tablesLeft, qpc, lpc, failedAttempts>>
    /\ UNCHANGED extraVars

\* push rejected by fetch (transport) or answered non-2xx other than 401
PushFail(p) ==
    /\ pc[p] = "s_push"
    /\ SyncCatch(p)
    /\ pending' = [pending EXCEPT ![p] = << >>]
    /\ ev' = <<"push", "fail">>
    /\ called' = "none"
    /\ UNCHANGED <<user, onLine, listening, pendingChanges, outbox, nextOutboxId,
                   lastSync, tablesLeft, qpc, lpc>>
    /\ UNCHANGED extraVars

\* pull answered: 2xx carrying k non-empty tables, or 401
PullResponse(p, status, k, t) ==
    /\ pc[p] = "s_pull"
    /\ ev' = <<"pull", status>>
    /\ called' = "none"
    /\ IF PullAccepted(status) /\ k > 0
       THEN /\ pc' = [pc EXCEPT ![p] = "s_apply"]
            /\ tablesLeft' = [tablesLeft EXCEPT ![p] = k]
            /\ ret' = "none"
            /\ UNCHANGED <<lastSync, retryCount, failedAttempts, syncStatus, syncInProgress>>
       ELSE /\ SyncSucceed(p)
            /\ lastSync' = IF PullAccepted(status) THEN Watermark(t) ELSE lastSync
            /\ UNCHANGED tablesLeft
    /\ UNCHANGED <<user, onLine, listening, pendingChanges, retryTimeout,
                   errorResetTimeout, outbox, nextOutboxId, pending, qpc, lpc>>
    /\ UNCHANGED extraVars

\* pull rejected by fetch or answered non-2xx other than 401
PullFail(p) ==
    /\ pc[p] = "s_pull"
    /\ SyncCatch(p)
    /\ ev' = <<"pull", "fail">>
    /\ called' = "none"
    /\ UNCHANGED <<user, onLine, listening, pendingChanges, outbox, nextOutboxId,
                   lastSync, pending, tablesLeft, qpc, lpc>>
    /\ UNCHANGED extraVars

\* one `await db.table(tableName).bulkPut(records)` of the pull loop succeeded;
\* after the last one lastSync is stamped and sync() returns true
PullApply(p, t) ==
    /\ pc[p] = "s_apply"
    /\ tablesLeft' = [tablesLeft EXCEPT ![p] = @ - 1]
    /\ ev' = <<"pull", "put">>
    /\ called' = "none"
    /\ IF tablesLeft[p] = 1
       THEN /\ SyncSucceed(p)
            /\ lastSync' = Watermark(t)
       ELSE /\ ret' = "none"
            /\ UNCHANGED <<lastSync, retryCount, failedAttempts, syncStatus,
                           syncInProgress, pc>>
    /\ UNCHANGED <<user, onLine, listening, pendingChanges, retryTimeout,
                   errorResetTimeout, outbox, nextOutboxId, pending, qpc, lpc>>
    /\ UNCHANGED extraVars

\* a bulkPut of the pull loop threw
PullApplyFail(p) ==
    /\ pc[p] = "s_apply"
    /\ SyncCatch(p)
    /\ tablesLeft' = [tablesLeft EXCEPT ![p] = 0]
    /\ ev' = <<"pull", "putfail">>
    /\ called' = "none"
    /\ UNCHANGED <<user, onLine, listening, pendingChanges, outbox, nextOutboxId,
                   lastSync, pending, qpc, lpc>>
    /\ UNCHANGED extraVars


\* ------------------------------------------------------------ fullSync()

\* fullSync() up to its first await (the fetch of /api/sync/full), in slot p
\* bug variant: fullSync() starts without testing syncInProgress
FullSyncCallUnguarded(p) ==
    /\ called' = "fullSync"
    /\ syncInProgress' = TRUE
    /\ syncStatus' = "syncing"
    /\ pc' = [pc EXCEPT ![p] = "f_fetch"]
    /\ ret' = "none"

FullSyncCall(p) ==
    /\ called' = "fullSync"
    /\ IF InFlight
       THEN /\ ret' = "false"
            /\ UNCHANGED <<syncInProgress, syncStatus, pc>>
       ELSE /\ syncInProgress' = TRUE
            /\ syncStatus' = "syncing"
            /\ pc' = [pc EXCEPT ![p] = "f_fetch"]
            /\ ret' = "none"

\* bug variant: a successful fullSync() leaves lastSync alone
FullSucceedNoStamp(p, t) ==
    /\ UNCHANGED lastSync
    /\ syncStatus' = "idle"
    /\ syncInProgress' = FALSE
    /\ pc' = [pc EXCEPT ![p] = "idle"]
    /\ ret' = "true"

\* the success tail of fullSync()
FullSucceed(p, t) ==
    /\ lastSync' = Watermark(t)
    /\ syncStatus' = "idle"
    /\ syncInProgress' = FALSE
    /\ pc' = [pc EXCEPT ![p] = "idle"]
    /\ ret' = "true"

\* the catch block of fullSync()
FullCatch(p) ==
    /\ syncStatus' = "error"
    /\ syncInProgress' = FALSE
    /\ errorResetTimeout' = ERROR_RESET_DELAY
    /\ pc' = [pc EXCEPT ![p] = "idle"]
    /\ ret' = "false"

\* /api/sync/full answered 2xx with k tables
FullResponse(p, k, t) ==
    /\ pc[p] = "f_fetch"
    /\ ev' = <<"full", "ok">>
    /\ called' = "none"
    /\ IF k > 0
       THEN /\ pc' = [pc EXCEPT ![p] = "f_apply"]
            /\ tablesLeft' = [tablesLeft EXCEPT ![p] = k]
            /\ ret' = "none"
            /\ UNCHANGED <<lastSync, syncStatus, syncInProgress>>
       ELSE /\ FullSucceed(p, t)
            /\ UNCHANGED tablesLeft
    /\ UNCHANGED <<user, onLine, listening, pendingChanges, retryCount, retryTimeout,
                   errorResetTimeout, outbox, nextOutboxId, pending, qpc, lpc,
                   failedAttempts>>
    /\ UNCHANGED extraVars

\* /api/sync/full not answered, or answered non-2xx (401 included)
FullFail(p) ==
    /\ pc[p] = "f_fetch"
    /\ FullCatch(p)
    /\ ev' = <<"full", "fail">>
    /\ called' = "none"
    /\ UNCHANGED <<user, onLine, listening, pendingChanges, retryCount, retryTimeout,
                   outbox, nextOutboxId, lastSync, pending, tablesLeft, qpc, lpc,
                   failedAttempts>>
    /\ UNCHANGED extraVars

\* clear() + bulkPut() of one table of the snapshot succeeded
FullApply(p, t) ==
    /\ pc[p] = "f_apply"
    /\ tablesLeft' = [tablesLeft EXCEPT ![p] = @ - 1]
    /\ ev' = <<"full", "put">>
    /\ called' = "none"
    /\ IF tablesLeft[p] = 1
       THEN FullSucceed(p, t)
       ELSE /\ ret' = "none"
            /\ UNCHANGED <<lastSync, syncStatus, syncInProgress, pc>>
    /\ UNCHANGED <<user, onLine, listening, pendingChanges, retryCount, retryTimeout,
                   errorResetTimeout, outbox, nextOutboxId, pending, qpc, lpc,
                   failedAttempts>>
    /\ UNCHANGED extraVars

\* clear() or bulkPut() of the snapshot loop threw
FullApplyFail(p) ==
    /\ pc[p] = "f_apply"
    /\ FullCatch(p)
    /\ tablesLeft' = [tablesLeft EXCEPT ![p] = 0]
    /\ ev' = <<"full", "putfail">>
    /\ called' = "none"
    /\ UNCHANGED <<user, onLine, listening, pendingChanges, retryCount, retryTimeout,
                   outbox, nextOutboxId, lastSync, pending, qpc, lpc,
                   failedAttempts>>
    /\ UNCHANGED extraVars

\* ------------------------------------------------------------- auth store

\* checkAuth(): the server knows the session (user set, fullSync started) ...
CheckAuthServer ==
    /\ user = "none"
    /\ HasFreeSlot
    /\ user' = "authed"
    /\ FullSyncCall(FreeSlot)
    /\ ev' = << >>
    /\ UNCHANGED <<onLine, listening, pendingChanges, retryCount, retryTimeout,
                   errorResetTimeout, outbox, nextOutboxId, lastSync, pending,
                   tablesLeft, qpc, lpc, failedAttempts>>
    /\ UNCHANGED extraVars

\* ... or it does not / cannot be reached: the local anonymous user
CheckAuthLocal ==
    /\ user = "none"
    /\ user' = "local"
    /\ ret' = "none"
    /\ ev' = << >>
    /\ called' = "none"
    /\ UNCHANGED <<onLine, listening, syncStatus, pendingChanges, retryCount,
                   retryTimeout, errorResetTimeout, syncInProgress, outbox, nextOutboxId,
                   lastSync, pc, pending, tablesLeft, qpc, lpc, failedAttempts>>
    /\ UNCHANGED extraVars

\* login() / register() once the API call has succeeded
Login ==
    /\ user = "local"
    /\ lpc = "idle"
    /\ HasFreeSlot
    /\ user' = "authed"
    /\ FullSyncCall(FreeSlot)
    /\ ev' = << >>
    /\ UNCHANGED <<onLine, listening, pendingChanges, retryCount, retryTimeout,
                   errorResetTimeout, outbox, nextOutboxId, lastSync, pending,
                   tablesLeft, qpc, lpc, failedAttempts>>
    /\ UNCHANGED extraVars

\* clearSyncState()
ClearSyncState ==
    /\ lastSync' = 0
    /\ retryCount' = 0
    /\ failedAttempts' = 0
    /\ retryTimeout' = 0
    /\ errorResetTimeout' = 0

\* logout() is called: api.logout() is awaited
LogoutCall ==
    /\ user = "authed"
    /\ lpc = "idle"
    /\ lpc' = "api"
    /\ ret' = "none"
    /\ ev' = << >>
    /\ called' = "none"
    /\ UNCHANGED <<user, onLine, listening, syncStatus, pendingChanges, retryCount,
                   retryTimeout, errorResetTimeout, syncInProgress, outbox, nextOutboxId,
                   lastSync, pc, pending, tablesLeft, qpc, failedAttempts>>
    /\ UNCHANGED extraVars

\* api.logout() settled: user.set(LOCAL_USER); clearSyncState()
LogoutClearState ==
    /\ lpc = "api"
    /\ user' = "local"
    /\ ClearSyncState
    /\ lpc' = "clear"
    /\ ret' = "none"
    /\ ev' = << >>
    /\ called' = "none"
    /\ UNCHANGED <<onLine, listening, syncStatus, pendingChanges, syncInProgress,
                   outbox, nextOutboxId, pc, pending, tablesLeft, qpc>>
    /\ UNCHANGED extraVars

\* the domain tables logout() calls clear() on
ClearedOnLogout == {"templates", "templateExercises", "schedule", "workouts", "sets",
                    "progression"}

\* the table clears of logout(): the domain tables above, db.outbox and
\* db.activeWorkout
LogoutClearData ==
    /\ lpc = "clear"
    /\ tables' = [t \in LocalTables |-> IF t \in ClearedOnLogout THEN {} ELSE tables[t]]
    /\ outbox' = {}
    /\ activeWorkout' = [activeWorkout EXCEPT !.rows = {}]
    /\ lpc' = "idle"
    /\ ret' = "none"
    /\ ev' = << >>
    /\ called' = "none"
    /\ UNCHANGED <<user, onLine, listening, syncStatus, pendingChanges, retryCount,
                   retryTimeout, errorResetTimeout, syncInProgress, nextOutboxId,
                   lastSync, pc, pending, tablesLeft, qpc, failedAttempts>>
    /\ UNCHANGED <<server, fsync, atCall, recorderVars, pushVars, cycleVars,
                   resolverVars, contentVars, page, finishing>>

\* a logged-in user with a populated local store and nothing in flight
LogoutSpecInit ==
    /\ user = "authed"
    /\ onLine = TRUE
    /\ listening = TRUE
    /\ syncStatus = "idle"
    /\ outbox \in {{}, {[id |-> 1, createdAt |-> 1]}}
    /\ pendingChanges = Cardinality(outbox)
    /\ retryCount = 0
    /\ retryTimeout = 0
    /\ errorResetTimeout = 0
    /\ syncInProgress = FALSE
    /\ nextOutboxId = Cardinality(outbox) + 1
    /\ lastSync \in {0, 1}
    /\ pc = [p \in Calls |-> "idle"]
    /\ pending = [p \in Calls |-> << >>]
    /\ tablesLeft = [p \in Calls |-> 0]
    /\ qpc = "idle"
    /\ lpc = "idle"
    /\ ret = "none"
    /\ ev = << >>
    /\ called = "none"
    /\ failedAttempts = 0
    /\ tables \in [LocalTables -> SUBSET RecIds]
    /\ server = [k \in Range(FullKeys) |-> {}]
    /\ fsync = NoFullSync
    /\ atCall = tables
    /\ RecorderInit
    /\ PushInit
    /\ CycleInit
    /\ ResolverInit
    /\ ContentInit
    /\ activeWorkout \in {[rows |-> {}, lastKey |-> 0],
                          [rows |-> {[id |-> 1, template_id |-> 1, workout_id |-> 1,
                                      completedSets |-> {}]}, lastKey |-> 1]}
    /\ page = ClosedPage
    /\ finishing = [f \in 1..NumFinish |-> NoFinish]

LogoutNext ==
    \/ LogoutCall
    \/ LogoutClearState
    \/ LogoutClearData

LogoutSpec == LogoutSpecInit /\ [][LogoutNext]_vars

\* ------------------------------------------------ queueChange / initSync

\* await db.outbox.add({... createdAt: Date.now()})
QueueAdd(t) ==
    /\ qpc = "idle"
    /\ nextOutboxId <= MaxOutboxId
    /\ outbox' = outbox \cup {[id |-> nextOutboxId, createdAt |-> t]}
    /\ nextOutboxId' = nextOutboxId + 1
    /\ qpc' = "q_count"
    /\ ret' = "none"
    /\ ev' = << >>
    /\ called' = "none"
    /\ UNCHANGED <<user, onLine, listening, syncStatus, pendingChanges, retryCount,
                   retryTimeout, errorResetTimeout, syncInProgress, lastSync, pc,
                   pending, tablesLeft, lpc, failedAttempts>>
    /\ UNCHANGED extraVars

\* await updatePendingCount(); syncIfOnline()
QueueFinish ==
    /\ qpc = "q_count"
    /\ HasFreeSlot
    /\ pendingChanges' = Cardinality(outbox)
    /\ SyncIfOnline(FreeSlot)
    /\ qpc' = "idle"
    /\ ev' = << >>
    /\ UNCHANGED <<user, onLine, listening, retryCount, retryTimeout, outbox,
                   nextOutboxId, lastSync, pending, tablesLeft, lpc, failedAttempts>>
    /\ UNCHANGED extraVars

\* initSync(), awaited by the layout after checkAuth() (and so after its fullSync)
InitSync ==
    /\ ~listening
    /\ user # "none"
    /\ \A p \in Calls : pc[p] \notin FullPcs
    /\ HasFreeSlot
    /\ listening' = TRUE
    /\ pendingChanges' = Cardinality(outbox)
    /\ SyncIfOnline(FreeSlot)
    /\ ev' = << >>
    /\ UNCHANGED <<user, onLine, retryCount, retryTimeout, outbox, nextOutboxId,
                   lastSync, pending, tablesLeft, qpc, lpc, failedAttempts>>
    /\ UNCHANGED extraVars

\* ---------------------------------------------------- connectivity, timers

\* bug variant: the 'online' listener forgets `retryCount = 0`
GoOnlineNoReset ==
    /\ ~onLine
    /\ onLine' = TRUE
    /\ ev' = <<"net", "online">>
    /\ IF listening /\ isAuthenticated
       THEN /\ HasFreeSlot
            /\ UNCHANGED retryCount
            /\ failedAttempts' = 0
            /\ SyncCall(FreeSlot)
       ELSE /\ ret' = "none"
            /\ called' = "none"
            /\ UNCHANGED <<retryCount, failedAttempts, syncInProgress, syncStatus,
                           errorResetTimeout, pc>>
    /\ UNCHANGED <<user, listening, pendingChanges, retryTimeout, outbox,
                   nextOutboxId, lastSync, pending, tablesLeft, qpc, lpc>>
    /\ UNCHANGED extraVars

\* navigator.onLine becomes true; the 'online' listener
GoOnline ==
    /\ ~onLine
    /\ onLine' = TRUE
    /\ ev' = <<"net", "online">>
    /\ IF listening /\ isAuthenticated
       THEN /\ HasFreeSlot
            /\ retryCount' = 0
            /\ failedAttempts' = 0
            /\ SyncCall(FreeSlot)
       ELSE /\ ret' = "none"
            /\ called' = "none"
            /\ UNCHANGED <<retryCount, failedAttempts, syncInProgress, syncStatus,
                           errorResetTimeout, pc>>
    /\ UNCHANGED <<user, listening, pendingChanges, retryTimeout, outbox,
                   nextOutboxId, lastSync, pending, tablesLeft, qpc, lpc>>
    /\ UNCHANGED extraVars

\* bug variant: the 'offline' listener forgets clearRetry()
GoOfflineKeepsRetry ==
    /\ onLine
    /\ onLine' = FALSE
    /\ UNCHANGED retryTimeout
    /\ ret' = "none"
    /\ ev' = <<"net", "offline">>
    /\ called' = "none"
    /\ UNCHANGED <<user, listening, syncStatus, pendingChanges, retryCount,
                   errorResetTimeout, syncInProgress, outbox, nextOutboxId, lastSync,
                   pc, pending, tablesLeft, qpc, lpc, failedAttempts>>
    /\ UNCHANGED extraVars

\* navigator.onLine becomes false; the 'offline' listener: clearRetry()
GoOffline ==
    /\ onLine
    /\ onLine' = FALSE
    /\ retryTimeout' = IF listening THEN 0 ELSE retryTimeout
    /\ ret' = "none"
    /\ ev' = <<"net", "offline">>
    /\ called' = "none"
    /\ UNCHANGED <<user, listening, syncStatus, pendingChanges, retryCount,
                   errorResetTimeout, syncInProgress, outbox, nextOutboxId, lastSync,
                   pc, pending, tablesLeft, qpc, lpc, failedAttempts>>
    /\ UNCHANGED extraVars

\* the retry timer armed by scheduleRetry() fires
RetryFire ==
    /\ retryTimeout # 0
    /\ retryTimeout' = 0
    /\ ev' = << >>
    /\ IF onLine
       THEN /\ HasFreeSlot
            /\ SyncCall(FreeSlot)
       ELSE /\ ret' = "none"
            /\ called' = "none"
            /\ UNCHANGED <<syncInProgress, syncStatus, errorResetTimeout, pc>>
    /\ UNCHANGED <<user, onLine, listening, pendingChanges, retryCount, outbox,
                   nextOutboxId, lastSync, pending, tablesLeft, qpc, lpc, failedAttempts>>
    /\ UNCHANGED extraVars

\* the error-reset timer fires
ErrorResetFire ==
    /\ errorResetTimeout # 0
    /\ errorResetTimeout' = 0
    /\ syncStatus' = IF syncStatus = "error" THEN "idle" ELSE syncStatus
    /\ ret' = "none"
    /\ ev' = << >>
    /\ called' = "none"
    /\ UNCHANGED <<user, onLine, listening, pendingChanges, retryCount, retryTimeout,
                   syncInProgress, outbox, nextOutboxId, lastSync, pc, pending,
                   tablesLeft, qpc, lpc, failedAttempts>>
    /\ UNCHANGED extraVars

Next ==
    \/ ManualSync
    \/ \E p \in Calls : SyncRead(p)
    \/ \E p \in Calls : PushOk(p)
    \/ \E p \in Calls : PushCounted(p)
    \/ \E p \in Calls : Push401(p)
    \/ \E p \in Calls : PushFail(p)
    \/ \E p \in Calls, k \in 0..MaxTables, t \in Clock : PullResponse(p, "ok", k, t)
    \/ \E p \in Calls, t \in Clock : PullResponse(p, "401", 0, t)
    \/ \E p \in Calls : PullFail(p)
    \/ \E p \in Calls, t \in Clock : PullApply(p, t)
    \/ \E p \in Calls : PullApplyFail(p)
    \/ \E p \in Calls, k \in 0..MaxTables, t \in Clock : FullResponse(p, k, t)
    \/ \E p \in Calls : FullFail(p)
    \/ \E p \in Calls, t \in Clock : FullApply(p, t)
    \/ \E p \in Calls : FullApplyFail(p)
    \/ CheckAuthServer
    \/ CheckAuthLocal
    \/ Login
    \/ LogoutCall
    \/ LogoutClearState
    \/ LogoutClearData
    \/ \E t \in Clock : QueueAdd(t)
    \/ QueueFinish
    \/ InitSync
    \/ GoOnline
    \/ GoOffline
    \/ RetryFire
    \/ ErrorResetFire

Spec == Init /\ [][Next]_vars

\* a logged-in user on a device that is and stays online: checkAuth() and
\* initSync() have run, nothing is in flight and the Outbox is empty
DrainInit ==
    /\ user = "authed"
    /\ onLine = TRUE
    /\ listening = TRUE
    /\ syncStatus = "idle"
    /\ pendingChanges = 0
    /\ retryCount = 0
    /\ retryTimeout = 0
    /\ errorResetTimeout = 0
    /\ syncInProgress = FALSE
    /\ outbox = {}
    /\ nextOutboxId = 1
    /\ lastSync = 0
    /\ pc = [p \in Calls |-> "idle"]
    /\ pending = [p \in Calls |-> << >>]
    /\ tablesLeft = [p \in Calls |-> 0]
    /\ qpc = "idle"
    /\ lpc = "idle"
    /\ ret = "none"
    /\ ev = << >>
    /\ called = "none"
    /\ failedAttempts = 0
    /\ StoreInit
    /\ RecorderInit
    /\ PushInit
    /\ CycleInit
    /\ LaterInit

\* what the engine does by itself once a change is queued: the steps of the
\* sync() calls, the answers of the server and the timers
EngineStep ==
    \/ QueueFinish
    \/ \E p \in Calls : SyncRead(p)
    \/ \E p \in Calls : PushOk(p) \/ PushFail(p)
    \/ \E p \in Calls : PushCounted(p)
    \/ \E p \in Calls, k \in 0..MaxTables, t \in Clock : PullResponse(p, "ok", k, t)
    \/ \E p \in Calls : PullFail(p)
    \/ \E p \in Calls, t \in Clock : PullApply(p, t)
    \/ RetryFire
    \/ ErrorResetFire

\* the user's part: queueChange() calls
DrainNext ==
    \/ \E t \in Clock : QueueAdd(t)
    \/ EngineStep

\* every await settles and every armed timer fires
DrainSpec == DrainInit /\ [][DrainNext]_vars /\ WF_vars(EngineStep)

TypeOK ==
    /\ user \in {"none", "local", "authed"}
    /\ onLine \in BOOLEAN
    /\ listening \in BOOLEAN
    /\ syncStatus \in {"idle", "syncing", "error"}
    /\ pendingChanges \in 0..MaxOutboxId
    /\ retryCount \in 0..MAX_RETRIES
    /\ retryTimeout \in {0, 1000, 3000, 10000}
    /\ errorResetTimeout \in {0, ERROR_RESET_DELAY}
    /\ syncInProgress \in BOOLEAN
    /\ nextOutboxId \in 1..(MaxOutboxId + 1)
    /\ lastSync \in 0..MaxClock
    /\ \A p \in Calls : pc[p] \in {"idle"} \cup SyncPcs \cup FullPcs
    /\ \A p \in Calls : tablesLeft[p] \in 0..MaxTables
    /\ qpc \in {"idle", "q_count"}
    /\ lpc \in {"idle", "api", "clear"}
    /\ ret \in {"none", "true", "false"}
    /\ ev \in {<< >>} \cup ({"push", "pull", "full"} \X {"ok", "401", "fail", "put", "putfail"})
              \cup ({"net"} \X {"online", "offline"})
              \cup {<<"full", "clear">>}
    /\ called \in {"none", "sync", "fullSync"}
    /\ failedAttempts \in 0..(MAX_RETRIES + 1)

\* ----------------------------------------- fullSync(), table by table

\* the sync-engine state fullSync() and its caller never touch
fullSyncFrame == <<onLine, listening, pendingChanges, retryCount, retryTimeout,
                   outbox, nextOutboxId, pending, tablesLeft, qpc, lpc,
                   failedAttempts>>

\* body of GET /api/sync/full: one array per key
FullBody == [k \in Range(FullKeys) |-> server[k]]

\* the loop of fullSync() moves to the next entry of the body, or is over
NextEntry(p, t) ==
    /\ fsync' = [fsync EXCEPT !.left = Tail(@), !.phase = "clear"]
    /\ IF Len(fsync.left) = 1
       THEN FullSucceed(p, t)
       ELSE /\ ret' = "none"
            /\ UNCHANGED <<lastSync, syncStatus, syncInProgress, pc>>

\* checkAuth(): the server knows the session; user.set(userData); fullSync()
CheckAuthFullSync ==
    /\ user = "none"
    /\ user' = "authed"
    /\ FullSyncCall(1)
    /\ fsync' = NoFullSync
    /\ atCall' = tables
    /\ ev' = << >>
    /\ UNCHANGED <<lastSync, errorResetTimeout, tables, server>>
    /\ UNCHANGED fullSyncFrame
    /\ UNCHANGED outsideFullSync

\* response.ok: const data = await response.json()
SnapshotResponse(t) ==
    /\ pc[1] = "f_fetch"
    /\ ev' = <<"full", "ok">>
    /\ called' = "none"
    /\ IF Len(FullKeys) > 0
       THEN /\ fsync' = [left |-> FullKeys, data |-> FullBody, phase |-> "clear"]
            /\ pc' = [pc EXCEPT ![1] = "f_apply"]
            /\ ret' = "none"
            /\ UNCHANGED <<lastSync, syncStatus, syncInProgress>>
       ELSE /\ FullSucceed(1, t)
            /\ UNCHANGED fsync
    /\ UNCHANGED <<user, errorResetTimeout, tables, server, atCall>>
    /\ UNCHANGED fullSyncFrame
    /\ UNCHANGED outsideFullSync

\* the fetch threw, or the response is not ok
SnapshotFail ==
    /\ pc[1] = "f_fetch"
    /\ FullCatch(1)
    /\ ev' = <<"full", "fail">>
    /\ called' = "none"
    /\ UNCHANGED <<user, lastSync, tables, server, fsync, atCall>>
    /\ UNCHANGED fullSyncFrame
    /\ UNCHANGED outsideFullSync

\* await db.table(tableName).clear(); an empty array is not bulkPut
SnapshotClear(t) ==
    /\ pc[1] = "f_apply"
    /\ fsync.phase = "clear"
    /\ ev' = <<"full", "clear">>
    /\ called' = "none"
    /\ tables' = [tables EXCEPT ![Head(fsync.left)] = {}]
    /\ IF fsync.data[Head(fsync.left)] # {}
       THEN /\ fsync' = [fsync EXCEPT !.phase = "put"]
            /\ ret' = "none"
            /\ UNCHANGED <<lastSync, syncStatus, syncInProgress, pc>>
       ELSE NextEntry(1, t)
    /\ UNCHANGED <<user, errorResetTimeout, server, atCall>>
    /\ UNCHANGED fullSyncFrame
    /\ UNCHANGED outsideFullSync

\* await db.table(tableName).bulkPut(records)
SnapshotPut(t) ==
    /\ pc[1] = "f_apply"
    /\ fsync.phase = "put"
    /\ ev' = <<"full", "put">>
    /\ called' = "none"
    /\ tables' = [tables EXCEPT ![Head(fsync.left)] = @ \cup fsync.data[Head(fsync.left)]]
    /\ NextEntry(1, t)
    /\ UNCHANGED <<user, errorResetTimeout, server, atCall>>
    /\ UNCHANGED fullSyncFrame
    /\ UNCHANGED outsideFullSync

\* clear() or bulkPut() threw
SnapshotThrow ==
    /\ pc[1] = "f_apply"
    /\ FullCatch(1)
    /\ ev' = <<"full", "putfail">>
    /\ called' = "none"
    /\ UNCHANGED <<user, lastSync, tables, server, fsync, atCall>>
    /\ UNCHANGED fullSyncFrame
    /\ UNCHANGED outsideFullSync

\* the local tables and the server's rows are whatever earlier sessions left
FullSyncInit ==
    /\ SyncInit
    /\ tables \in [LocalTables -> SUBSET RecIds]
    /\ server \in [Range(FullKeys) -> SUBSET RecIds]
    /\ fsync = NoFullSync
    /\ atCall = tables
    /\ RecorderInit
    /\ PushInit
    /\ CycleInit
    /\ LaterInit

FullSyncNext ==
    \/ CheckAuthFullSync
    \/ \E t \in Clock : SnapshotResponse(t)
    \/ SnapshotFail
    \/ \E t \in Clock : SnapshotClear(t)
    \/ \E t \in Clock : SnapshotPut(t)
    \/ SnapshotThrow

FullSyncSpec == FullSyncInit /\ [][FullSyncNext]_vars

\* ------------------------------------------------ local-store operations

\* the sync-engine state the local-store operations never touch
recorderFrame == <<onLine, listening, retryCount, retryTimeout, lastSync,
                   pending, tablesLeft, qpc, lpc, failedAttempts>>

\* a step that neither calls nor resolves a sync()/fullSync()
NoSyncCall ==
    /\ ret' = "none"
    /\ ev' = << >>
    /\ called' = "none"
    /\ UNCHANGED <<syncInProgress, syncStatus, errorResetTimeout, pc>>

\* the tables saveRecord() / deleteRecord() are called with
RecordTables == {"progression"}

FreeOp == CHOOSE s \in Slots : ops[s].kind = "none" /\ \A r \in Slots : ops[r].kind = "none" => s <= r
HasFreeOp == \E s \in Slots : ops[s].kind = "none"

\* bug variant: pre-decrement, `return --localIdCounter`
ReturnedIdPreDecrement == localIdCounter - 1

\* the value of `localIdCounter--`
ReturnedId == localIdCounter

\* generateLocalId()
generateLocalId ==
    /\ -localIdCounter <= MaxLocalIds
    /\ localIdCounter' = localIdCounter - 1
    /\ issued' = Append(issued, ReturnedId)

\* an operation starts awaiting the table write w = <<table, id, action>>
Begin(s, kind, w, n, wid) ==
    ops' = [ops EXCEPT ![s] = [kind |-> kind, pc |-> "write", w |-> w, n |-> n, wid |-> wid]]

\* saveRecord(table, record, isNew) up to `await db.table(table).put(record)`
SaveRecord(table, id, isNew) ==
    /\ user # "none"
    /\ HasFreeOp
    /\ Begin(FreeOp, "saveRecord", <<table, id, IF isNew THEN "create" ELSE "update">>, 0, 0)
    /\ NoSyncCall
    /\ UNCHANGED <<user, pendingChanges, outbox, nextOutboxId, tables,
                   localIdCounter, committed, issued>>
    /\ UNCHANGED recorderFrame
    /\ UNCHANGED outsideRecorder

\* deleteRecord(table, id) up to `await db.table(table).delete(id)`
DeleteRecord(table, id) ==
    /\ user # "none"
    /\ HasFreeOp
    /\ Begin(FreeOp, "deleteRecord", <<table, id, "delete">>, 0, 0)
    /\ NoSyncCall
    /\ UNCHANGED <<user, pendingChanges, outbox, nextOutboxId, tables,
                   localIdCounter, committed, issued>>
    /\ UNCHANGED recorderFrame
    /\ UNCHANGED outsideRecorder

\* createWorkoutLocal(userId, templateId) up to `await db.workouts.put(workout)`
CreateWorkoutLocal ==
    /\ user # "none"
    /\ HasFreeOp
    /\ generateLocalId
    /\ Begin(FreeOp, "createWorkoutLocal", <<"workouts", ReturnedId, "create">>, 0, 0)
    /\ NoSyncCall
    /\ UNCHANGED <<user, pendingChanges, outbox, nextOutboxId, tables, committed>>
    /\ UNCHANGED recorderFrame
    /\ UNCHANGED outsideRecorder

\* the loop over `sets` of completeWorkoutLocal(): the next iteration up to
\* `await db.sets.put(workoutSet)`, or past the loop up to
\* `await db.workouts.get(workoutId)`
NextSet(s, n, wid) ==
    IF n > 0
    THEN /\ generateLocalId
         /\ Begin(s, "completeWorkoutLocal", <<"sets", ReturnedId, "create">>, n - 1, wid)
    ELSE /\ ops' = [ops EXCEPT ![s] = [kind |-> "completeWorkoutLocal", pc |-> "get",
                                       w |-> << >>, n |-> 0, wid |-> wid]]
         /\ UNCHANGED <<localIdCounter, issued>>

\* completeWorkoutLocal(workoutId, sets) up to its first await
CompleteWorkoutLocal(wid, n) ==
    /\ user # "none"
    /\ HasFreeOp
    /\ NextSet(FreeOp, n, wid)
    /\ NoSyncCall
    /\ UNCHANGED <<user, pendingChanges, outbox, nextOutboxId, tables, committed>>
    /\ UNCHANGED recorderFrame
    /\ UNCHANGED outsideRecorder

\* the awaited put() / delete() of a domain table commits
Written(s) ==
    /\ ops[s].pc = "write"
    /\ BagCardinality(committed) < MaxWrites
    /\ LET w == ops[s].w
       IN  /\ tables' = [tables EXCEPT ![w[1]] =
                            IF w[3] = "delete" THEN @ \ {w[2]} ELSE @ \cup {w[2]}]
           /\ committed' = committed (+) SetToBag({w})
    /\ ops' = [ops EXCEPT ![s].pc = "add"]
    /\ NoSyncCall
    /\ UNCHANGED <<user, pendingChanges, outbox, nextOutboxId, localIdCounter, issued>>
    /\ UNCHANGED recorderFrame
    /\ UNCHANGED outsideRecorder

\* queueChange(): `await db.outbox.add({...})` commits
Queued(s, t) ==
    /\ ops[s].pc = "add"
    /\ LET w == ops[s].w
       IN  outbox' = outbox \cup {[id |-> nextOutboxId, createdAt |-> t,
                                   table |-> w[1], recordId |-> w[2], action |-> w[3]]}
    /\ nextOutboxId' = nextOutboxId + 1
    /\ ops' = [ops EXCEPT ![s].pc = "count"]
    /\ NoSyncCall
    /\ UNCHANGED <<user, pendingChanges, tables, localIdCounter, committed, issued>>
    /\ UNCHANGED recorderFrame
    /\ UNCHANGED outsideRecorder

\* queueChange(): `await updatePendingCount(); syncIfOnline()`, and the code
\* of the operation that follows the awaited queueChange()
Counted(s) ==
    /\ ops[s].pc = "count"
    /\ pendingChanges' = Cardinality(outbox)
    /\ SyncIfOnline(FreeSlot)
    /\ ev' = << >>
    /\ IF ops[s].kind = "completeWorkoutLocal" /\ ops[s].w[1] = "sets"
       THEN NextSet(s, ops[s].n, ops[s].wid)
       ELSE /\ ops' = [ops EXCEPT ![s] = NoOp]
            /\ UNCHANGED <<localIdCounter, issued>>
    /\ UNCHANGED <<user, outbox, nextOutboxId, tables, committed>>
    /\ UNCHANGED recorderFrame
    /\ UNCHANGED outsideRecorder

\* completeWorkoutLocal(): `const workout = await db.workouts.get(workoutId)`
Fetched(s) ==
    /\ ops[s].pc = "get"
    /\ IF ops[s].wid \in tables["workouts"]
       THEN Begin(s, "completeWorkoutLocal", <<"workouts", ops[s].wid, "update">>, 0, ops[s].wid)
       ELSE ops' = [ops EXCEPT ![s] = NoOp]
    /\ NoSyncCall
    /\ UNCHANGED <<user, pendingChanges, outbox, nextOutboxId, tables,
                   localIdCounter, committed, issued>>
    /\ UNCHANGED recorderFrame
    /\ UNCHANGED outsideRecorder

\* the awaited Dexie call rejects (quota, transaction abort): the operation
\* has no try/catch and rejects to its caller
Threw(s) ==
    /\ ops[s].pc # "idle"
    /\ ops' = [ops EXCEPT ![s] = NoOp]
    /\ NoSyncCall
    /\ UNCHANGED <<user, pendingChanges, outbox, nextOutboxId, tables,
                   localIdCounter, committed, issued>>
    /\ UNCHANGED recorderFrame
    /\ UNCHANGED outsideRecorder

\* the page is closed or reloaded: module state starts over, IndexedDB stays
ProcessExit ==
    /\ user # "none"
    /\ user' = "none"
    /\ pendingChanges' = 0
    /\ localIdCounter' = -1
    /\ issued' = << >>
    /\ ops' = [s \in Slots |-> NoOp]
    /\ NoSyncCall
    /\ UNCHANGED <<outbox, nextOutboxId, tables, committed>>
    /\ UNCHANGED recorderFrame
    /\ UNCHANGED outsideRecorder

RecorderNext ==
    \/ CheckAuthLocal
    \/ \E table \in RecordTables, id \in RecIds, isNew \in BOOLEAN : SaveRecord(table, id, isNew)
    \/ \E table \in RecordTables, id \in RecIds : DeleteRecord(table, id)
    \/ CreateWorkoutLocal
    \/ \E wid \in tables["workouts"] \cup {0}, n \in 0..MaxSets : CompleteWorkoutLocal(wid, n)
    \/ \E s \in Slots : Written(s)
    \/ \E s \in Slots, t \in Clock : Queued(s, t)
    \/ \E s \in Slots : Counted(s)
    \/ \E s \in Slots : Fetched(s)
    \/ \E s \in Slots : Threw(s)
    \/ ProcessExit

RecorderSpec == Init /\ [][RecorderNext]_vars

\* ------------------------------------------------ server: sync endpoints

\* user.id of the session requireAuth() found, and another user's id
Me == 1
Other == 2

\* `data: null` of a delete change
NoData == << >>

\* INSERT OR REPLACE: the row takes the place of the one with its primary key
InsertOrReplace(rows, row) == {r \in rows : r.id # row.id} \cup {row}

\* INSERT OR REPLACE INTO schedule: UNIQUE(user_id, day_of_week) as well
InsertOrReplaceSchedule(rows, row) ==
    {r \in rows : /\ r.id # row.id
                  /\ ~(r.user_id = row.user_id /\ r.day_of_week = row.day_of_week)}
        \cup {row}

\* deactivateOtherProgrammes(userId, exceptId)
deactivateOtherProgrammes(rows, userId, exceptId) ==
    {IF r.user_id = userId /\ r.id # exceptId THEN [r EXCEPT !.is_active = 0] ELSE r
        : r \in rows}

\* data.created_at || new Date().toISOString()
CreatedAt(data, now) == IF "created_at" \in DOMAIN data THEN data.created_at ELSE now

\* case "create" / "update" of POST /api/sync/push
Upsert(s, table, data, now) ==
    CASE table = "programmes" ->
            [s EXCEPT !.programmes =
                InsertOrReplace(
                    IF data.is_active = 1
                    THEN deactivateOtherProgrammes(@, Me, data.id) ELSE @,
                    [id |-> data.id, user_id |-> Me, name |-> data.name,
                     is_active |-> data.is_active,
                     created_at |-> CreatedAt(data, now)])]
      [] table = "templates" ->
            [s EXCEPT !.templates =
                InsertOrReplace(@,
                    [id |-> data.id, user_id |-> Me,
                     programme_id |-> data.programme_id, name |-> data.name,
                     rest_time |-> data.rest_time,
                     created_at |-> CreatedAt(data, now)])]
      [] table = "templateExercises" ->
            [s EXCEPT !.templateExercises =
                InsertOrReplace(@,
                    [id |-> data.id, template_id |-> data.template_id,
                     exercise_id |-> data.exercise_id,
                     sort_order |-> data.sort_order, sets_data |-> data.sets_data,
                     increment |-> data.increment])]
      [] table = "schedule" ->
            [s EXCEPT !.schedule =
                InsertOrReplaceSchedule(@,
                    [id |-> data.id, user_id |-> Me,
                     day_of_week |-> data.day_of_week,
                     template_id |-> data.template_id])]
      [] table = "workouts" ->
            [s EXCEPT !.workouts =
                InsertOrReplace(@,
                    [id |-> data.id, user_id |-> Me,
                     template_id |-> data.template_id,
                     started_at |-> data.started_at,
                     completed_at |-> data.completed_at])]
      [] table = "sets" ->
            [s EXCEPT !.sets =
                InsertOrReplace(@,
                    [id |-> data.id, workout_id |-> data.workout_id,
                     exercise_id |-> data.exercise_id,
                     set_number |-> data.set_number, weight |-> data.weight,
                     reps |-> data.reps, completed_at |-> data.completed_at])]
      [] OTHER -> s

\* case "delete" of POST /api/sync/push
Delete(s, table, recordId) ==
    CASE table = "programmes" ->
            LET tpl == {r.id : r \in {x \in s.templates : x.programme_id = recordId}}
            IN  [s EXCEPT
                    !.schedule = {r \in @ : r.template_id \notin tpl},
                    !.templateExercises = {r \in @ : r.template_id \notin tpl},
                    !.templates = {r \in @ : r.programme_id # recordId},
                    !.programmes = {r \in @ : ~(r.id = recordId /\ r.user_id = Me)}]
      [] table = "templates" ->
            [s EXCEPT !.templates = {r \in @ : ~(r.id = recordId /\ r.user_id = Me)}]
      [] table = "templateExercises" ->
            [s EXCEPT !.templateExercises = {r \in @ : r.id # recordId}]
      [] table = "schedule" ->
            [s EXCEPT !.schedule = {r \in @ : ~(r.id = recordId /\ r.user_id = Me)}]
      [] table = "workouts" ->
            [s EXCEPT !.workouts = {r \in @ : ~(r.id = recordId /\ r.user_id = Me)}]
      [] table = "sets" ->
            [s EXCEPT !.sets = {r \in @ : r.id # recordId}]
      [] OTHER -> s

\* the body of the loop `for (const change of changes)`
PushChange(s, c, now) ==
    IF "user_id" \in DOMAIN c.data /\ c.data.user_id # Me
    THEN s
    ELSE IF c.action = "delete"
         THEN Delete(s, c.table, c.recordId)
         ELSE Upsert(s, c.table, c.data, now)

\* POST /api/sync/push
RECURSIVE PushBatch(_, _, _)
PushBatch(s, cs, now) ==
    IF cs = << >> THEN s
    ELSE PushBatch(PushChange(s, Head(cs), now), Tail(cs), now)

\* GET /api/sync/pull: the `changes` of the response
PullChanges(s) ==
    LET templates == {r \in s.templates : r.user_id = Me}
        workouts == {r \in s.workouts : r.user_id = Me}
    IN  [programmes |-> {r \in s.programmes : r.user_id = Me},
         templates |-> templates,
         templateExercises |->
            {r \in s.templateExercises : r.template_id \in {t.id : t \in templates}},
         schedule |-> {r \in s.schedule : r.user_id = Me},
         workouts |-> workouts,
         sets |-> {r \in s.sets : r.workout_id \in {w.id : w \in workouts}}]

ProgIds == 1..MaxProg

\* Outbox entry written by queueChange(table, recordId, action, data)
Change(table, action, data) ==
    [table |-> table, recordId |-> data.id, action |-> action, data |-> data]

Removal(table, id) ==
    [table |-> table, recordId |-> id, action |-> "delete", data |-> NoData]

\* the records the client's operations put in the Outbox: saveProgramme()
\* always stamps created_at, saveRecord() sends the record it is given
ProgrammeRecords ==
    {[id |-> i, user_id |-> Me, name |-> "n", is_active |-> a, created_at |-> 1,
      updated_at |-> 1] : i \in ProgIds, a \in {0, 1}}
    \cup {[id |-> i, user_id |-> Me, name |-> "n", is_active |-> a,
           updated_at |-> 1] : i \in ProgIds, a \in {0, 1}}

TemplateRecords ==
    {[id |-> i, user_id |-> Me, programme_id |-> q, name |-> "n", rest_time |-> 180,
      created_at |-> 1, updated_at |-> 1] : i \in RecIds, q \in ProgIds}

TemplateExerciseRecords ==
    {[id |-> -i, template_id |-> t, exercise_id |-> 1, sort_order |-> 0,
      sets_data |-> "[]", increment |-> 2, updated_at |-> 1] : i \in RecIds, t \in RecIds}

ScheduleRecords ==
    {[id |-> -i, user_id |-> Me, day_of_week |-> 1, template_id |-> t,
      updated_at |-> 1] : i \in RecIds, t \in RecIds}

WorkoutRecords ==
    {[id |-> -i, user_id |-> u, template_id |-> 1, started_at |-> 1,
      completed_at |-> 0, updated_at |-> 1] : i \in RecIds, u \in {Me, Other}}

SetRecords ==
    {[id |-> -i, workout_id |-> -w, exercise_id |-> 1, set_number |-> 1,
      weight |-> 60, reps |-> 10, completed_at |-> 1, updated_at |-> 1]
        : i \in RecIds, w \in RecIds}

Changes ==
    {Change("programmes", "create", d) : d \in ProgrammeRecords}
    \cup {Change("templates", "create", d) : d \in TemplateRecords}
    \cup {Change("templateExercises", "create", d) : d \in TemplateExerciseRecords}
    \cup {Change("schedule", "create", d) : d \in ScheduleRecords}
    \cup {Change("workouts", a, d) : a \in {"create", "update"}, d \in WorkoutRecords}
    \cup {Change("sets", "create", d) : d \in SetRecords}
    \cup {Removal("programmes", i) : i \in ProgIds}
    \cup {Removal("templates", i) : i \in RecIds}
    \cup {Removal(t, -i) : t \in {"templateExercises", "schedule", "workouts", "sets"},
                          i \in RecIds}

Batches == UNION {[1..n -> Changes] : n \in 0..MaxBatch}

\* the server processes the push request; a request whose response was lost
\* is sent again with the same body
Deliver(now) ==
    /\ delivered < 2
    /\ ~pulled.done
    /\ srv' = PushBatch(srv, changes, now)
    /\ delivered' = delivered + 1
    /\ afterOnce' = IF delivered = 0 THEN srv' ELSE afterOnce
    /\ UNCHANGED <<changes, pulled>>
    /\ UNCHANGED outsidePush

\* the client pulls and bulkPuts every table of the response
Pull ==
    /\ delivered > 0
    /\ ~pulled.done
    /\ pulled' = [done |-> TRUE, changes |-> PullChanges(srv)]
    /\ UNCHANGED <<srv, changes, delivered, afterOnce>>
    /\ UNCHANGED outsidePush

PushPullInit ==
    /\ SyncInit
    /\ StoreInit
    /\ RecorderInit
    /\ srv = EmptyStore
    /\ changes \in Batches
    /\ delivered = 0
    /\ afterOnce = EmptyStore
    /\ pulled = [done |-> FALSE, changes |-> EmptyStore]
    /\ CycleInit
    /\ LaterInit

PushPullNext ==
    \/ \E now \in Clock : Deliver(now)
    \/ Pull

PushPullSpec == PushPullInit /\ [][PushPullNext]_vars

\* -------------------------------------------------------- cycle tracker

\* Dexie returns the rows of where('user_id').equals(userId) in primary-key
\* order; Array.prototype.sort is stable, so rows with equal completed_at
\* keep that order: b.completed_at - a.completed_at, then id
Newer(a, b) ==
    \/ a.completed_at > b.completed_at
    \/ a.completed_at = b.completed_at /\ a.id < b.id

\* workouts.sort((a, b) => new Date(b.completed_at) - new Date(a.completed_at))
RECURSIVE SortByCompletedAtDesc(_)
SortByCompletedAtDesc(rows) ==
    IF rows = {} THEN << >>
    ELSE LET first == CHOOSE r \in rows : \A o \in rows \ {r} : Newer(r, o)
         IN  <<first>> \o SortByCompletedAtDesc(rows \ {first})

\* bug variant: a repeated template is skipped instead of ending the walk
RECURSIVE WalkSkippingRepeats(_, _, _, _)
WalkSkippingRepeats(ws, totalTemplates, cycleCount, completedInCurrentCycle) ==
    IF ws = << >>
    THEN [completedIds |-> completedInCurrentCycle, currentCycle |-> cycleCount]
    ELSE LET templateId == Head(ws).template_id
             added == completedInCurrentCycle \cup {templateId}
         IN  IF templateId \in completedInCurrentCycle
             THEN WalkSkippingRepeats(Tail(ws), totalTemplates, cycleCount,
                                      completedInCurrentCycle)
             ELSE IF Cardinality(added) = totalTemplates
                  THEN WalkSkippingRepeats(Tail(ws), totalTemplates, cycleCount + 1, {})
                  ELSE WalkSkippingRepeats(Tail(ws), totalTemplates, cycleCount, added)

\* the loop `for (const workout of workouts)` with its break
RECURSIVE Walk(_, _, _, _)
Walk(ws, totalTemplates, cycleCount, completedInCurrentCycle) ==
    IF ws = << >>
    THEN [completedIds |-> completedInCurrentCycle, currentCycle |-> cycleCount]
    ELSE LET templateId == Head(ws).template_id
             added == completedInCurrentCycle \cup {templateId}
         IN  IF templateId \in completedInCurrentCycle
             THEN [completedIds |-> completedInCurrentCycle, currentCycle |-> cycleCount]
             ELSE IF Cardinality(added) = totalTemplates
                  THEN Walk(Tail(ws), totalTemplates, cycleCount + 1, {})
                  ELSE Walk(Tail(ws), totalTemplates, cycleCount, added)

\* calculateCycleProgress(userId, programmeId) on the tables tpls and wks;
\* completed_at = 0 and template_id = 0 stand for null
calculateCycleProgress(tpls, wks, userId, programmeId) ==
    LET templateIds == {t.id : t \in {r \in tpls : r.programme_id = programmeId}}
        totalTemplates == Cardinality(templateIds)
        workouts == {w \in wks : /\ w.user_id = userId
                                 /\ w.completed_at # 0
                                 /\ w.template_id # 0
                                 /\ w.template_id \in templateIds}
        walked == Walk(SortByCompletedAtDesc(workouts), totalTemplates, 0, {})
    IN  IF totalTemplates = 0
        THEN [completedIds |-> {}, totalTemplates |-> 0, cycleComplete |-> FALSE,
              currentCycle |-> 0]
        ELSE [completedIds |-> walked.completedIds,
              totalTemplates |-> totalTemplates,
              cycleComplete |-> Cardinality(walked.completedIds) = totalTemplates,
              currentCycle |-> walked.currentCycle]

\* the programme whose progress a view asks for
ViewedProgramme == 1

TemplateIds == 1..MaxTemplates

\* a workout view is opened: calculateCycleProgress($user.id, programme.id)
CalculateCycleProgress ==
    /\ progress = << >>
    /\ progress' = <<calculateCycleProgress(dbTemplates, dbWorkouts, Me, ViewedProgramme)>>
    /\ UNCHANGED <<dbTemplates, dbWorkouts>>
    /\ UNCHANGED outsideCycle

\* the tables hold whatever templates and workouts earlier sessions left
CycleSpecInit ==
    /\ SyncInit
    /\ StoreInit
    /\ RecorderInit
    /\ PushInit
    /\ \E f \in [TemplateIds -> ProgIds] :
          dbTemplates = {[id |-> i, programme_id |-> f[i]] : i \in TemplateIds}
    /\ \E k \in 0..MaxWorkouts :
          \E f \in [1..k -> [user_id : {Me, Other}, template_id : TemplateIds,
                             completed_at : 0..MaxTime]] :
              dbWorkouts = {[id |-> i, user_id |-> f[i].user_id,
                             template_id |-> f[i].template_id,
                             completed_at |-> f[i].completed_at] : i \in 1..k}
    /\ progress = << >>
    /\ LaterInit

CycleNext == CalculateCycleProgress

CycleSpec == CycleSpecInit /\ [][CycleNext]_vars

\* ----------------------------------------------------- overload resolver

\* weights are counted in half kilograms: 2.5 kg is 5, 20 kg is 40
DefaultIncrement == 5
DefaultTemplateWeight == 40

ViewedTemplate == 1
ViewedExercise == 1

\* db.workouts...reverse().sortBy('completed_at'): the collection is read in
\* descending key order and the stable sort compares completed_at descending
MoreRecent(a, b) ==
    \/ a.completed_at > b.completed_at
    \/ a.completed_at = b.completed_at /\ a.id > b.id

\* .sortBy('set_number')
SortBySetNumber(rows) ==
    LET n == Cardinality(rows)
    IN  CHOOSE q \in [1..n -> rows] :
            /\ \A i, j \in 1..n : i # j => q[i] # q[j]
            /\ \A i, j \in 1..n : i < j => q[i].set_number <= q[j].set_number

\* getLastSetsForExercise(userId, exerciseId): the sets of the exercise in the
\* most recent completed workout that has any, or []
RECURSIVE LastSetsFrom(_, _, _)
LastSetsFrom(recentWorkouts, sets, exerciseId) ==
    IF recentWorkouts = {} THEN << >>
    ELSE LET workout == CHOOSE w \in recentWorkouts :
                            \A o \in recentWorkouts \ {w} : MoreRecent(w, o)
             found == {r \in sets : r.workout_id = workout.id /\ r.exercise_id = exerciseId}
         IN  IF found # {} THEN SortBySetNumber(found)
             ELSE LastSetsFrom(recentWorkouts \ {workout}, sets, exerciseId)

getLastSetsForExercise(wks, sets, userId, exerciseId) ==
    LastSetsFrom({w \in wks : w.user_id = userId /\ w.completed_at # 0}, sets, exerciseId)

\* te.increment || 2.5
IncrementOf(te) == IF te.increment = 0 THEN DefaultIncrement ELSE te.increment

\* shouldApplyIncrement
ShouldApplyIncrement(cycleProgress, templateId) ==
    cycleProgress.cycleComplete /\ templateId \notin cycleProgress.completedIds

calculateDisplayWeight(tpls, wks, sets, userId, programmeId, templateId, exerciseId, te) ==
    LET templateSets == te.sets_data
        increment == IncrementOf(te)
        templateDefaultWeight ==
            IF templateSets # << >> THEN templateSets[1].weight ELSE DefaultTemplateWeight
        lastSets == getLastSetsForExercise(wks, sets, userId, exerciseId)
        cycleProgress == calculateCycleProgress(tpls, wks, userId, programmeId)
        shouldApplyIncrement == ShouldApplyIncrement(cycleProgress, templateId)
    IN  IF lastSets = << >>
        THEN [weight |-> templateDefaultWeight, source |-> "template",
              incrementApplied |-> FALSE]
        ELSE [weight |-> IF shouldApplyIncrement THEN lastSets[1].weight + increment
                         ELSE lastSets[1].weight,
              source |-> "history",
              incrementApplied |-> shouldApplyIncrement]

\* lastSets[idx]
SetAt(lastSets, idx) ==
    IF idx <= Len(lastSets) THEN <<lastSets[idx]>> ELSE << >>

\* the part of loadWorkoutData() that builds the set inputs of one template
\* exercise: dynamic weight if the template's programme is in the store, else
\* the last workout's values by index, else the template's
BuildSets(progs, tpls, wks, sets, userId, templateId, te) ==
    LET template == CHOOSE t \in tpls : t.id = templateId
        activeProgramme == {p \in progs : p.id = template.programme_id}
        displayWeight ==
            IF template.programme_id # 0 /\ activeProgramme # {}
            THEN <<calculateDisplayWeight(tpls, wks, sets, userId, template.programme_id,
                                          templateId, te.exercise_id, te)>>
            ELSE << >>
        lastSets == getLastSetsForExercise(wks, sets, userId, te.exercise_id)
        Built(idx) ==
            LET ts == te.sets_data[idx]
                lastSet == SetAt(lastSets, idx)
            IN  [reps |-> IF lastSet # << >> THEN lastSet[1].reps ELSE ts.reps,
                 weight |-> IF displayWeight # << >> THEN displayWeight[1].weight
                            ELSE IF lastSet # << >> THEN lastSet[1].weight
                            ELSE ts.weight]
    IN  [dynamicWeight |-> displayWeight,
         sets |-> [idx \in 1..Len(te.sets_data) |-> Built(idx)]]

\* the session page of the viewed template is opened
ResolveSets ==
    /\ prefill = << >>
    /\ prefill' = <<BuildSets(dbProgrammes, dbTemplates, dbWorkouts, dbSets, Me,
                              ViewedTemplate, templateExercise)>>
    /\ UNCHANGED <<dbProgrammes, dbSets, templateExercise, cycleVars>>
    /\ UNCHANGED outsideResolver

\* the configured targets of the viewed exercise, position by position
TemplateTargets == <<[reps |-> 10, weight |-> 60], [reps |-> 12, weight |-> 70]>>

\* the sets earlier workouts may have logged: the viewed exercise at any
\* position, another exercise at the first
LoggedSets ==
    {[workout_id |-> w, exercise_id |-> e, set_number |-> n,
      weight |-> 100 * e + 10 * w + n, reps |-> 3 * w + n] :
        w \in 1..MaxDone, e \in {ViewedExercise}, n \in 1..MaxPositions}
    \cup {[workout_id |-> w, exercise_id |-> 2, set_number |-> 1,
           weight |-> 200 + 10 * w + 1, reps |-> 3 * w + 1] : w \in 1..MaxDone}

ResolverSpecInit ==
    /\ SyncInit
    /\ StoreInit
    /\ RecorderInit
    /\ PushInit
    /\ progress = << >>
    /\ \E f \in [TemplateIds -> 0..1] :
          dbTemplates = {[id |-> i, programme_id |-> f[i]] : i \in TemplateIds}
    /\ dbProgrammes \in {{}, {[id |-> 1, user_id |-> Me, is_active |-> 1]}}
    /\ \E k \in 0..MaxDone :
          \E f \in [1..k -> [user_id : {Me, Other}, template_id : TemplateIds,
                             completed_at : 0..2]] :
              dbWorkouts = {[id |-> i, user_id |-> f[i].user_id,
                             template_id |-> f[i].template_id,
                             completed_at |-> f[i].completed_at] : i \in 1..k}
    /\ dbSets \in SUBSET LoggedSets
    /\ \E len \in 0..MaxPositions, inc \in {0, DefaultIncrement, 10} :
          templateExercise = [exercise_id |-> ViewedExercise,
                              sets_data |-> SubSeq(TemplateTargets, 1, len),
                              increment |-> inc]
    /\ prefill = << >>
    /\ ContentInit
    /\ SessionInit

ResolverNext == ResolveSets

ResolverSpec == ResolverSpecInit /\ [][ResolverNext]_vars

\* ------------------------------------- programme and template operations

\* `null` of an optional id
Null == 0

\* the Dexie tables the operations work on, the Outbox and the id counter
Store ==
    [programmes |-> dbProgrammes, templates |-> dbTemplates,
     templateExercises |-> dbTemplateExercises, schedule |-> dbSchedule,
     outbox |-> queue, localIdCounter |-> localIdCounter]

\* toArray() of a query on one index key: the rows in primary-key order
ById(rows) ==
    CHOOSE q \in [1..Cardinality(rows) -> rows] :
        \A i, j \in 1..Cardinality(rows) : i < j => q[i].id < q[j].id

\* for (const r of rows) { put(r'); queueChange(table, r.id, 'update', r') }
PutEach(st, table, rows, Changed(_)) ==
    [st EXCEPT ![table] = {r \in @ : r.id \notin {x.id : x \in rows}}
                              \cup {Changed(r) : r \in rows},
               !.outbox = @ \o [k \in 1..Cardinality(rows) |->
                                   Change(table, "update", Changed(ById(rows)[k]))]]

\* for (const r of rows) { delete(r.id); queueChange(table, r.id, 'delete', null) }
DeleteEach(st, table, rows) ==
    [st EXCEPT ![table] = @ \ rows,
               !.outbox = @ \o [k \in 1..Cardinality(rows) |->
                                   Removal(table, ById(rows)[k].id)]]

\* put(record); queueChange(table, record.id, action, record)
PutOne(st, table, action, record) ==
    [st EXCEPT ![table] = InsertOrReplace(@, record),
               !.outbox = Append(@, Change(table, action, record))]

\* prog.is_active = flag; prog.updated_at = now
Flag(prog, flag) ==
    [f \in DOMAIN prog \cup {"updated_at"} |->
        IF f = "is_active" THEN flag ELSE IF f = "updated_at" THEN 1 ELSE prog[f]]

Deactivated(prog) == Flag(prog, 0)

\* saveProgramme(userId, programmeId, data)
saveProgramme(st, userId, programmeId, is_active) ==
    LET isNew == programmeId = Null \/ programmeId < 0
        id == IF programmeId = Null THEN st.localIdCounter ELSE programmeId
        s0 == IF programmeId = Null
              THEN [st EXCEPT !.localIdCounter = @ - 1] ELSE st
        others == {q \in s0.programmes :
                       q.user_id = userId /\ q.is_active # 0 /\ q.id # id}
        s1 == IF is_active THEN PutEach(s0, "programmes", others, Deactivated) ELSE s0
        programme == [id |-> id, user_id |-> userId, name |-> "n",
                      is_active |-> IF is_active THEN 1 ELSE 0,
                      created_at |-> 1, updated_at |-> 1]
    IN  PutOne(s1, "programmes", IF isNew THEN "create" ELSE "update", programme)

\* activateProgramme(userId, programmeId)
activateProgramme(st, userId, programmeId) ==
    LET Flagged(prog) == Flag(prog, IF prog.id = programmeId THEN 1 ELSE 0)
    IN  PutEach(st, "programmes",
                {q \in st.programmes : q.user_id = userId
                                           /\ q.is_active # Flagged(q).is_active},
                Flagged)

\* bug variant: the template goes first and its schedule entries stay
deleteTemplateOnly(st, templateId) ==
    LET s1 == [st EXCEPT !.templates = {r \in @ : r.id # templateId},
                         !.outbox = Append(@, Removal("templates", templateId))]
    IN  DeleteEach(s1, "templateExercises",
                   {r \in s1.templateExercises : r.template_id = templateId})

\* deleteTemplateWithExercises(templateId)
deleteTemplateWithExercises(st, templateId) ==
    LET s1 == DeleteEach(st, "templateExercises",
                         {r \in st.templateExercises : r.template_id = templateId})
        s2 == DeleteEach(s1, "schedule",
                         {r \in s1.schedule : r.template_id = templateId})
    IN  [s2 EXCEPT !.templates = {r \in @ : r.id # templateId},
                   !.outbox = Append(@, Removal("templates", templateId))]

\* for (const template of templates) await deleteTemplateWithExercises(template.id)
RECURSIVE DeleteTemplates(_, _)
DeleteTemplates(st, templates) ==
    IF templates = << >> THEN st
    ELSE DeleteTemplates(deleteTemplateWithExercises(st, Head(templates).id),
                         Tail(templates))

\* deleteProgramme(programmeId)
deleteProgramme(st, programmeId) ==
    LET s1 == DeleteTemplates(st, ById({t \in st.templates :
                                           t.programme_id = programmeId}))
    IN  [s1 EXCEPT !.programmes = {r \in @ : r.id # programmeId},
                   !.outbox = Append(@, Removal("programmes", programmeId))]

\* ids the next n generateLocalId() calls return
NewIds(counter, n) == [k \in 1..n |-> counter - k + 1]

\* saveTemplateWithExercises(userId, templateId, data); data.exercises is
\* given by its length
saveTemplateWithExercises(st, userId, templateId, data) ==
    LET isNew == templateId = Null \/ templateId < 0
        id == IF templateId = Null THEN st.localIdCounter ELSE templateId
        s0 == IF templateId = Null
              THEN [st EXCEPT !.localIdCounter = @ - 1] ELSE st
        template == [id |-> id, user_id |-> userId, programme_id |-> data.programme_id,
                     name |-> "n", rest_time |-> 180, created_at |-> 1,
                     updated_at |-> 1]
        s1 == PutOne(s0, "templates", IF isNew THEN "create" ELSE "update", template)
        s2 == DeleteEach(s1, "templateExercises",
                         {r \in s1.templateExercises : r.template_id = id})
        teIds == NewIds(s2.localIdCounter, data.exercises)
        Exercise(k) == [id |-> teIds[k], template_id |-> id, exercise_id |-> k,
                        sort_order |-> k - 1, sets_data |-> "[]", increment |-> 5,
                        updated_at |-> 1]
        s3 == [s2 EXCEPT
                 !.templateExercises = @ \cup {Exercise(k) : k \in 1..data.exercises},
                 !.outbox = @ \o [k \in 1..data.exercises |->
                                     Change("templateExercises", "create", Exercise(k))],
                 !.localIdCounter = @ - data.exercises]
        s4 == DeleteEach(s3, "schedule",
                         {r \in s3.schedule : r.user_id = userId /\ r.template_id = id})
        schedIds == NewIds(s4.localIdCounter, Len(data.days))
        Entry(k) == [id |-> schedIds[k], user_id |-> userId,
                     day_of_week |-> data.days[k], template_id |-> id,
                     updated_at |-> 1]
    IN  [s4 EXCEPT
           !.schedule = @ \cup {Entry(k) : k \in 1..Len(data.days)},
           !.outbox = @ \o [k \in 1..Len(data.days) |->
                               Change("schedule", "create", Entry(k))],
           !.localIdCounter = @ - Len(data.days)]

\* the operation's result is written back; generateLocalId() stops at MaxLocalIds
Commit(st, deleted) ==
    /\ -st.localIdCounter <= MaxLocalIds
    /\ cascade' = deleted
    /\ dbProgrammes' = st.programmes
    /\ dbTemplates' = st.templates
    /\ dbTemplateExercises' = st.templateExercises
    /\ dbSchedule' = st.schedule
    /\ queue' = st.outbox
    /\ localIdCounter' = st.localIdCounter
    /\ issued' = issued \o NewIds(localIdCounter, localIdCounter - st.localIdCounter)
    /\ UNCHANGED <<srv, flight>>
    /\ UNCHANGED outsideContent

CanMutate == Len(queue) < MaxQueue
CanEdit == Len(queue) < MaxEditQueue

SaveProgramme(programmeId, is_active) ==
    /\ CanMutate
    /\ Commit(saveProgramme(Store, Me, programmeId, is_active), Null)

ActivateProgramme(programmeId) ==
    /\ CanMutate
    /\ Commit(activateProgramme(Store, Me, programmeId), Null)

DeleteProgramme(programmeId) ==
    /\ CanEdit
    /\ Commit(deleteProgramme(Store, programmeId), programmeId)

SaveTemplateWithExercises(templateId, data) ==
    /\ CanEdit
    /\ Commit(saveTemplateWithExercises(Store, Me, templateId, data), Null)

DeleteTemplateWithExercises(templateId) ==
    /\ CanEdit
    /\ Commit(deleteTemplateWithExercises(Store, templateId), Null)

\* sync(): const pending = await db.outbox.orderBy('createdAt').toArray()
SyncReadUpTo(limit) ==
    /\ flight.pc = "idle"
    /\ flight.n < limit
    /\ flight' = [pc |-> IF queue = << >> THEN "pull" ELSE "push",
                  pending |-> queue, resp |-> EmptyStore, n |-> flight.n + 1]
    /\ UNCHANGED <<dbProgrammes, dbTemplates, dbTemplateExercises, dbSchedule, queue,
                   localIdCounter, issued, srv>>
    /\ cascade' = Null
    /\ UNCHANGED outsideContent

ContentSyncRead == SyncReadUpTo(MaxSyncs)

\* the push is accepted: the server applies the batch, bulkDelete(ids)
ContentPush ==
    /\ flight.pc = "push"
    /\ srv' = PushBatch(srv, flight.pending, 1)
    /\ queue' = SubSeq(queue, Len(flight.pending) + 1, Len(queue))
    /\ flight' = [flight EXCEPT !.pc = "pull"]
    /\ UNCHANGED <<dbProgrammes, dbTemplates, dbTemplateExercises, dbSchedule,
                   localIdCounter, issued>>
    /\ cascade' = Null
    /\ UNCHANGED outsideContent

\* the pull request is answered
ContentPullResponse ==
    /\ flight.pc = "pull"
    /\ flight' = [flight EXCEPT !.pc = "apply", !.resp = PullChanges(srv)]
    /\ UNCHANGED <<dbProgrammes, dbTemplates, dbTemplateExercises, dbSchedule, queue,
                   localIdCounter, issued, srv>>
    /\ cascade' = Null
    /\ UNCHANGED outsideContent

\* db.table(tableName).bulkPut(records)
BulkPut(rows, records) ==
    {r \in rows : r.id \notin {x.id : x \in records}} \cup records

\* for (const [tableName, records] of Object.entries(data.changes)) bulkPut
ContentPullApply ==
    /\ flight.pc = "apply"
    /\ dbProgrammes' = BulkPut(dbProgrammes, flight.resp.programmes)
    /\ dbTemplates' = BulkPut(dbTemplates, flight.resp.templates)
    /\ dbTemplateExercises' = BulkPut(dbTemplateExercises, flight.resp.templateExercises)
    /\ dbSchedule' = BulkPut(dbSchedule, flight.resp.schedule)
    /\ flight' = [NoFlight EXCEPT !.n = flight.n]
    /\ UNCHANGED <<queue, localIdCounter, issued, srv>>
    /\ cascade' = Null
    /\ UNCHANGED outsideContent

\* a request fails: the catch of sync() ends the attempt
ContentSyncFail ==
    /\ flight.pc \in {"push", "pull"}
    /\ flight' = [NoFlight EXCEPT !.n = flight.n]
    /\ UNCHANGED <<dbProgrammes, dbTemplates, dbTemplateExercises, dbSchedule, queue,
                   localIdCounter, issued, srv>>
    /\ cascade' = Null
    /\ UNCHANGED outsideContent

Days == 1..MaxDays

\* day lists of the template form
DayLists == {<< >>} \cup {<<d>> : d \in Days} \cup {<<1, 2>>}

TemplateForms ==
    [days : DayLists, exercises : 0..1,
     programme_id : {Null} \cup {q.id : q \in dbProgrammes}]

\* a synced store: programme 1, active, with templates 1 and 2
SyncedProgrammes ==
    {[id |-> 1, user_id |-> Me, name |-> "n", is_active |-> 1, created_at |-> 1]}

SyncedTemplates ==
    {[id |-> t, user_id |-> Me, programme_id |-> 1, name |-> "n", rest_time |-> 180,
      created_at |-> 1] : t \in TemplateIds}

\* after login: an empty store, or the server's data loaded by fullSync()
ContentSpecInit ==
    /\ SyncInit
    /\ StoreInit
    /\ RecorderInit
    /\ changes = << >>
    /\ delivered = 0
    /\ afterOnce = EmptyStore
    /\ pulled = [done |-> FALSE, changes |-> EmptyStore]
    /\ dbWorkouts = {}
    /\ progress = << >>
    /\ dbSets = {}
    /\ templateExercise = NoTemplateExercise
    /\ prefill = << >>
    /\ ContentInit
    /\ SessionInit
    /\ \/ dbProgrammes = {} /\ dbTemplates = {} /\ srv = EmptyStore
       \/ /\ dbProgrammes = SyncedProgrammes
          /\ dbTemplates = SyncedTemplates
          /\ srv = [EmptyStore EXCEPT !.programmes = SyncedProgrammes,
                                      !.templates = SyncedTemplates]

\* the programme screens beside a sync()
ProgrammeNext ==
    \/ \E id \in {Null} \cup {q.id : q \in dbProgrammes}, a \in BOOLEAN :
          SaveProgramme(id, a)
    \/ \E id \in {q.id : q \in dbProgrammes} : ActivateProgramme(id)
    \/ \E id \in {q.id : q \in dbProgrammes} : DeleteProgramme(id)
    \/ ContentSyncRead
    \/ ContentPush
    \/ ContentPullResponse
    \/ ContentPullApply
    \/ ContentSyncFail

ProgrammeSpec == ContentSpecInit /\ [][ProgrammeNext]_vars

\* the programme's delete button beside two sync() calls, one after the other
ConvergeNext ==
    \/ \E id \in {q.id : q \in dbProgrammes} : DeleteProgramme(id)
    \/ \E id \in {t.id : t \in dbTemplates} : DeleteTemplateWithExercises(id)
    \/ SyncReadUpTo(MaxRounds)
    \/ ContentPush
    \/ ContentPullResponse
    \/ ContentPullApply
    \/ ContentSyncFail

ConvergeSpec == ContentSpecInit /\ [][ConvergeNext]_vars

\* the template editor and the programme's delete button
TemplateNext ==
    \/ \E id \in {Null} \cup {t.id : t \in dbTemplates}, data \in TemplateForms :
          SaveTemplateWithExercises(id, data)
    \/ \E id \in {t.id : t \in dbTemplates} : DeleteTemplateWithExercises(id)
    \/ \E id \in {q.id : q \in dbProgrammes} : DeleteProgramme(id)

TemplateSpec == ContentSpecInit /\ [][TemplateNext]_vars

\* ------------------------------------------------------- session page

\* the source holds two versions of the session page: the one that keys the
\* saved inputs by exercise index and remembers the id of its activeWorkout
\* record, and the one that keys them by exercise id and puts without an id
Versions == {"byIndex", "byExercise"}

\* the exercises the viewed template gives the page: exercise 1, one set
TemplateExercises == <<[exercise_id |-> ViewedExercise, sets |-> <<FALSE>>]>>

\* sets of an exercise picked in the modal
AddedExerciseSets == <<FALSE, FALSE, FALSE>>

\* saveProgress(): db.activeWorkout.put(record), with the remembered id when
\* the page has one
saveProgress(aw, pg) ==
    LET record == [template_id |-> ViewedTemplate, workout_id |-> pg.workoutId,
                   completedSets |->
                       {<<IF pg.version = "byIndex" THEN e
                          ELSE pg.exercises[e].exercise_id, i>> :
                           e \in 1..Len(pg.exercises), i \in 1..MaxSetsShown}
                       \cap UNION {{<<IF pg.version = "byIndex" THEN e
                                      ELSE pg.exercises[e].exercise_id, i>> :
                                       i \in {y \in 1..Len(pg.exercises[e].sets) :
                                                pg.exercises[e].sets[y]}} :
                                   e \in 1..Len(pg.exercises)}]
        Keyed(id) == [id |-> id, template_id |-> record.template_id,
                      workout_id |-> record.workout_id,
                      completedSets |-> record.completedSets]
    IN  IF pg.version = "byIndex" /\ pg.activeWorkoutId # 0
        THEN [aw |-> [aw EXCEPT !.rows = InsertOrReplace(@, Keyed(pg.activeWorkoutId))],
              pg |-> pg]
        ELSE [aw |-> [rows |-> aw.rows \cup {Keyed(aw.lastKey + 1)},
                      lastKey |-> aw.lastKey + 1],
              pg |-> IF pg.version = "byIndex"
                     THEN [pg EXCEPT !.activeWorkoutId = aw.lastKey + 1] ELSE pg]

\* n calls of saveProgress() in a row
RECURSIVE SaveTimes(_, _, _)
SaveTimes(aw, pg, n) ==
    IF n = 0 THEN [aw |-> aw, pg |-> pg]
    ELSE LET once == saveProgress(aw, pg) IN SaveTimes(once.aw, once.pg, n - 1)

\* the saves write their records; the key generator stops at MaxActiveKey
Saved(pg, n) ==
    LET after == SaveTimes(activeWorkout, pg, n)
    IN  /\ after.aw.lastKey <= MaxActiveKey
        /\ activeWorkout' = after.aw
        /\ page' = after.pg

\* restoreState(saved): the completed flags of the sets the rebuilt page has
restoreState(exercises, saved, version) ==
    [e \in 1..Len(exercises) |->
        [exercises[e] EXCEPT !.sets =
            [i \in 1..Len(@) |->
                <<IF version = "byIndex" THEN e ELSE exercises[e].exercise_id, i>>
                    \in saved.completedSets]]]

\* the workout createWorkoutLocal(userId, templateId) puts
NewWorkout(id) ==
    [id |-> id, user_id |-> Me, template_id |-> ViewedTemplate, started_at |-> 1,
     completed_at |-> 0, updated_at |-> 1]

\* onMount: loadWorkoutData() resumes the saved session of the template, or
\* creates a workout and saves the first progress record
OpenPage(version) ==
    LET existing == {r \in activeWorkout.rows : r.template_id = ViewedTemplate}
        existingState == CHOOSE r \in existing : \A o \in existing : r.id <= o.id
    IN  /\ ~page.open
        /\ Cardinality({f \in 1..NumFinish : finishing[f].pc # "idle"}) <= MaxUnsettled
        /\ IF existing # {}
           THEN /\ page' = [open |-> TRUE, version |-> version,
                            workoutId |-> existingState.workout_id,
                            activeWorkoutId |-> IF version = "byIndex"
                                                THEN existingState.id ELSE 0,
                            exercises |-> restoreState(TemplateExercises, existingState,
                                                       version),
                            edits |-> 0]
                /\ UNCHANGED <<activeWorkout, dbWorkouts, queue, localIdCounter, issued>>
           ELSE /\ -localIdCounter <= MaxLocalIds
                /\ dbWorkouts' = dbWorkouts \cup {NewWorkout(localIdCounter)}
                /\ queue' = Append(queue, Change("workouts", "create",
                                                 NewWorkout(localIdCounter)))
                /\ localIdCounter' = localIdCounter - 1
                /\ issued' = Append(issued, localIdCounter)
                /\ Saved([open |-> TRUE, version |-> version,
                          workoutId |-> localIdCounter, activeWorkoutId |-> 0,
                          exercises |-> TemplateExercises, edits |-> 0], 1)
        /\ UNCHANGED <<dbSets, finishing>>
        /\ UNCHANGED outsideSession

\* toggleSetComplete: a set just completed restarts the timer, and stopTimer()
\* and startTimer() save as well
ToggleSetComplete(e, i) ==
    /\ page.open
    /\ e \in 1..Len(page.exercises)
    /\ i \in 1..Len(page.exercises[e].sets)
    /\ page.edits < MaxEdits
    /\ Saved([page EXCEPT !.exercises[e].sets[i] = ~@, !.edits = @ + 1],
             IF page.exercises[e].sets[i] THEN 1 ELSE 3)
    /\ UNCHANGED <<dbWorkouts, dbSets, queue, localIdCounter, issued, finishing>>
    /\ UNCHANGED outsideSession

\* handleExerciseSelect: the byExercise page refuses an exercise it already has
HandleExerciseSelect(id) ==
    /\ page.open
    /\ Len(page.exercises) < MaxExercises
    /\ page.version = "byExercise"
           => \A e \in 1..Len(page.exercises) : page.exercises[e].exercise_id # id
    /\ page.edits < MaxEdits
    /\ Saved([page EXCEPT !.exercises =
                  Append(@, [exercise_id |-> id, sets |-> AddedExerciseSets]),
                         !.edits = @ + 1], 1)
    /\ UNCHANGED <<dbWorkouts, dbSets, queue, localIdCounter, issued, finishing>>
    /\ UNCHANGED outsideSession

\* addSetToExercise
AddSetToExercise(e) ==
    /\ page.open
    /\ e \in 1..Len(page.exercises)
    /\ Len(page.exercises[e].sets) < MaxSetsShown
    /\ page.edits < MaxEdits
    /\ Saved([page EXCEPT !.exercises[e].sets = Append(@, FALSE), !.edits = @ + 1], 1)
    /\ UNCHANGED <<dbWorkouts, dbSets, queue, localIdCounter, issued, finishing>>
    /\ UNCHANGED outsideSession

\* db.activeWorkout.where('template_id').equals(templateId).delete()
WithoutSession(aw) ==
    [aw EXCEPT !.rows = {r \in @ : r.template_id # ViewedTemplate}]

\* cancelWorkout, the dialog confirmed
CancelWorkout ==
    /\ page.open
    /\ activeWorkout' = WithoutSession(activeWorkout)
    /\ page' = ClosedPage
    /\ UNCHANGED <<dbWorkouts, dbSets, queue, localIdCounter, issued, finishing>>
    /\ UNCHANGED outsideSession

\* the user navigates away or the app is closed: the component is destroyed
LeavePage ==
    /\ page.open
    /\ page' = ClosedPage
    /\ UNCHANGED <<activeWorkout, dbWorkouts, dbSets, queue, localIdCounter, issued,
                   finishing>>
    /\ UNCHANGED outsideSession

\* completedSetsData of finishWorkout(): set_number is idx + 1
RECURSIVE CompletedSetsData(_)
CompletedSetsData(exercises) ==
    IF exercises = << >> THEN << >>
    ELSE LET ex == Head(exercises)
             RECURSIVE Of(_)
             Of(i) == IF i > Len(ex.sets) THEN << >>
                      ELSE (IF ex.sets[i]
                            THEN <<[exercise_id |-> ex.exercise_id, set_number |-> i,
                                    weight |-> 40, reps |-> 10]>>
                            ELSE << >>) \o Of(i + 1)
         IN  Of(1) \o CompletedSetsData(Tail(exercises))

\* finishWorkout() up to its call of completeWorkoutLocal
FinishStart(f) ==
    /\ page.open
    /\ page.workoutId # 0
    /\ finishing[f].pc = "idle"
    /\ \A g \in 1..(f - 1) : finishing[g].pc # "idle"
    /\ CompletedSetsData(page.exercises) # << >>
    /\ finishing' = [finishing EXCEPT ![f] =
                        [pc |-> "complete", sets |-> CompletedSetsData(page.exercises),
                         workoutId |-> page.workoutId]]
    /\ UNCHANGED <<activeWorkout, page, dbWorkouts, dbSets, queue, localIdCounter,
                   issued>>
    /\ UNCHANGED outsideSession

\* completeWorkoutLocal(workoutId, sets)
completeWorkoutLocal(workouts, sets, box, counter, workoutId, data) ==
    LET ids == NewIds(counter, Len(data))
        Row(k) == [id |-> ids[k], workout_id |-> workoutId,
                   exercise_id |-> data[k].exercise_id,
                   set_number |-> data[k].set_number, weight |-> data[k].weight,
                   reps |-> data[k].reps, completed_at |-> 1, updated_at |-> 1]
        found == {w \in workouts : w.id = workoutId}
        Completed(w) == [w EXCEPT !.completed_at = 1, !.updated_at = 1]
    IN  [workouts |-> (workouts \ found) \cup {Completed(w) : w \in found},
         sets |-> sets \cup {Row(k) : k \in 1..Len(data)},
         outbox |-> box \o [k \in 1..Len(data) |-> Change("sets", "create", Row(k))]
                       \o (IF found = {} THEN << >>
                           ELSE <<Change("workouts", "update",
                                         Completed(CHOOSE w \in found : TRUE))>>),
         localIdCounter |-> counter - Len(data)]

FinishComplete(f) ==
    LET done == completeWorkoutLocal(dbWorkouts, dbSets, queue, localIdCounter,
                                     finishing[f].workoutId, finishing[f].sets)
    IN  /\ finishing[f].pc = "complete"
        /\ -done.localIdCounter <= MaxLocalIds + 1
        /\ dbWorkouts' = done.workouts
        /\ dbSets' = done.sets
        /\ queue' = done.outbox
        /\ localIdCounter' = done.localIdCounter
        /\ issued' = issued \o NewIds(localIdCounter, Len(finishing[f].sets))
        /\ finishing' = [finishing EXCEPT ![f].pc = "delete"]
        /\ UNCHANGED <<activeWorkout, page>>
        /\ UNCHANGED outsideSession

\* completeWorkoutLocal rejects: the catch of finishWorkout() logs the error
FinishFail(f) ==
    /\ finishing[f].pc = "complete"
    /\ finishing' = [finishing EXCEPT ![f] = NoFinish]
    /\ UNCHANGED <<activeWorkout, page, dbWorkouts, dbSets, queue, localIdCounter,
                   issued>>
    /\ UNCHANGED outsideSession

\* the activeWorkout records of the template are deleted; goto('/')
FinishDelete(f) ==
    /\ finishing[f].pc = "delete"
    /\ activeWorkout' = WithoutSession(activeWorkout)
    /\ page' = ClosedPage
    /\ finishing' = [finishing EXCEPT ![f] = NoFinish]
    /\ UNCHANGED <<dbWorkouts, dbSets, queue, localIdCounter, issued>>
    /\ UNCHANGED outsideSession

SessionSpecInit ==
    /\ SyncInit
    /\ onLine
    /\ StoreInit
    /\ RecorderInit
    /\ PushInit
    /\ CycleInit
    /\ LaterInit

SessionNext ==
    \/ \E version \in Versions : OpenPage(version)
    \/ \E e \in 1..MaxExercises, i \in 1..MaxSetsShown : ToggleSetComplete(e, i)
    \/ \E id \in 1..MaxExercises : HandleExerciseSelect(id)
    \/ \E e \in 1..MaxExercises : AddSetToExercise(e)
    \/ CancelWorkout
    \/ LeavePage
    \/ \E f \in 1..NumFinish : FinishStart(f)
    \/ \E f \in 1..NumFinish : FinishComplete(f)
    \/ \E f \in 1..NumFinish : FinishFail(f)
    \/ \E f \in 1..NumFinish : FinishDelete(f)

SessionSpec == SessionSpecInit /\ [][SessionNext]_vars

\* ---------------------------------------------- programme page tracker

\* the completed workouts of the template that toggleCycleComplete reads
CompletedOf(templateId) ==
    {w \in dbWorkouts : w.user_id = Me /\ w.template_id = templateId /\ w.completed_at # 0}

\* Date.now() of a press: later than every completion time in the store
Now ==
    LET times == {0} \cup {w.completed_at : w \in dbWorkouts}
    IN  1 + CHOOSE t \in times : \A o \in times : o <= t

\* the minimal workout record of a template marked as completed
MarkedWorkout(templateId, now) ==
    [id |-> -now, user_id |-> Me, template_id |-> templateId, started_at |-> now,
     completed_at |-> now, updated_at |-> now]

\* toggleCycleComplete(e, template): a completed template loses its most
\* recent completed workout and that workout's sets, another one gets a
\* workout completed now; the progress is then recalculated
ToggleCycleComplete(templateId) ==
    LET isCompleted == templateId \in progress[1].completedIds
        workouts == CompletedOf(templateId)
        mostRecent == Head(SortByCompletedAtDesc(workouts))
        sets == {r \in dbSets : r.workout_id = mostRecent.id}
    IN  /\ progress # << >>
        /\ CanMutate
        /\ templateId \in {t.id : t \in {r \in dbTemplates :
                                            r.programme_id = ViewedProgramme}}
        /\ IF isCompleted
           THEN IF workouts # {}
                THEN /\ dbSets' = dbSets \ sets
                     /\ dbWorkouts' = dbWorkouts \ {mostRecent}
                     /\ queue' = queue
                            \o [k \in 1..Cardinality(sets) |-> Removal("sets", ById(sets)[k].id)]
                            \o <<Removal("workouts", mostRecent.id)>>
                ELSE UNCHANGED <<dbSets, dbWorkouts, queue>>
           ELSE /\ Now <= MaxNow
                /\ dbWorkouts' = InsertOrReplace(dbWorkouts, MarkedWorkout(templateId, Now))
                /\ queue' = Append(queue, Change("workouts", "create",
                                                 MarkedWorkout(templateId, Now)))
                /\ UNCHANGED dbSets
        /\ progress' = <<calculateCycleProgress(dbTemplates, dbWorkouts', Me,
                                                ViewedProgramme)>>
        /\ UNCHANGED outsideTracker

\* the sets the workouts in the store may have: one or two of one exercise
HistorySets ==
    {[id |-> 10 * w + n, workout_id |-> w, exercise_id |-> ViewedExercise,
      set_number |-> n] : w \in 1..MaxHistory, n \in 1..2}

\* the page of the active programme has loaded: loadData() has calculated the
\* progress over the workouts earlier sessions left
TrackerSpecInit ==
    /\ SyncInit
    /\ onLine
    /\ StoreInit
    /\ RecorderInit
    /\ PushInit
    /\ \E f \in [TemplateIds -> ProgIds] :
          dbTemplates = {[id |-> i, programme_id |-> f[i]] : i \in TemplateIds}
    /\ \E k \in 0..MaxHistory :
          \E f \in [1..k -> [user_id : {Me, Other}, template_id : TemplateIds,
                             completed_at : 0..MaxHistory]] :
              dbWorkouts = {[id |-> i, user_id |-> f[i].user_id,
                             template_id |-> f[i].template_id,
                             completed_at |-> f[i].completed_at] : i \in 1..k}
    /\ dbSets \in SUBSET {r \in HistorySets : r.workout_id \in {w.id : w \in dbWorkouts}}
    /\ dbProgrammes = {[id |-> ViewedProgramme, user_id |-> Me, is_active |-> 1]}
    /\ progress = IF \E t \in dbTemplates : t.programme_id = ViewedProgramme
                  THEN <<calculateCycleProgress(dbTemplates, dbWorkouts, Me,
                                                ViewedProgramme)>>
                  ELSE << >>
    /\ templateExercise = NoTemplateExercise
    /\ prefill = << >>
    /\ ContentInit
    /\ SessionInit

TrackerNext == \E templateId \in TemplateIds : ToggleCycleComplete(templateId)

TrackerSpec == TrackerSpecInit /\ [][TrackerNext]_vars

\* ------------------------------------------------------------ properties

Rows(batch) == {batch[i] : i \in 1..Len(batch)}
Busy == {p \in Calls : pc[p] # "idle"}

\* C1: every push request carries the Outbox entries in the order they were
\* enqueued (increasing auto-increment key), none before an earlier one.
C1_PushInEnqueueOrder ==
    \A p \in Calls : pc[p] = "s_push" =>
        \A i, j \in 1..Len(pending[p]) : i < j => pending[p][i].id < pending[p][j].id

\* C2: a sync() called while a sync is in flight returns false, starts nothing
\* and leaves the status alone; at no time are two calls in flight, so there
\* are never two concurrent pushes.
C2_SingleFlight ==
    /\ [](Cardinality(Busy) <= 1)
    /\ [][(called' = "sync" /\ syncInProgress)
            => (ret' = "false" /\ pc' = pc /\ syncStatus' = syncStatus /\ syncInProgress')]_vars

C2_Witness ==
    /\ called = "sync" /\ ret = "false" /\ user = "authed"
    /\ \E p \in Calls : pc[p] = "s_push"

\* C3: a 2xx push removes from the Outbox exactly the rows of the batch that
\* was sent; rows enqueued meanwhile stay, and every later push carries all
\* the rows then in the Outbox.
C3_PushDeletesExactlyBatch ==
    /\ [][\A p \in Calls : (pc[p] = "s_push" /\ ev' = <<"push", "ok">>)
            => outbox' = outbox \ Rows(pending[p])]_vars
    /\ [][\A p \in Calls : (pc[p] = "s_read" /\ pc'[p] = "s_push")
            => Rows(pending'[p]) = outbox]_vars

C3_Witness ==
    /\ ev = <<"push", "ok">>
    /\ outbox # {}
    /\ \E p \in Calls : pc[p] = "s_count"

\* C4 as claimed: a failed push (transport error, non-2xx other than 401)
\* removes no Outbox row, skips the pull, resolves sync() to false and arms
\* a retry.
C4_FailedPushAlwaysRetries ==
    [][\A p \in Calls : (pc[p] = "s_push" /\ ev' = <<"push", "fail">>)
        => /\ outbox' = outbox
           /\ pc'[p] = "idle"
           /\ ret' = "false"
           /\ retryCount' = retryCount + 1
           /\ retryTimeout' # 0]_vars

\* C4 amended: ... and arms a retry while fewer than 3 retries have been armed
\* since the counter was last reset; at the ceiling no retry is armed, the
\* status becomes 'error' and the counter returns to 0.
C4_FailedPush ==
    [][\A p \in Calls : (pc[p] = "s_push" /\ ev' = <<"push", "fail">>)
        => /\ outbox' = outbox
           /\ pc'[p] = "idle"
           /\ ret' = "false"
           /\ IF retryCount < 3
              THEN retryCount' = retryCount + 1 /\ retryTimeout' # 0
              ELSE /\ retryCount' = 0
                   /\ retryTimeout' = retryTimeout
                   /\ syncStatus' = "error"]_vars

C4_Witness ==
    /\ ev = <<"push", "fail">>
    /\ ret = "false"
    /\ retryTimeout # 0
    /\ retryCount = 1
    /\ outbox # {}

\* the step in which sync() leaves through its catch block
CatchStep(p) ==
    /\ pc[p] \in SyncPcs
    /\ pc'[p] = "idle"
    /\ ret' = "false"
    /\ ev' # <<"push", "401">>

\* C5 as claimed: the status becomes 'error' once 3 attempts have failed.
C5_ErrorAfterThreeFailures ==
    [][\A p \in Calls : (CatchStep(p) /\ syncStatus' = "error") => failedAttempts' = 3]_vars

\* C5 amended: with every attempt failing, the 1st, 2nd and 3rd failure arm a
\* retry of 1 s, 3 s and 10 s, and the 4th failure (the attempt after the
\* third retry) arms none and sets the status to 'error'.
C5_RetryCeiling ==
    [][\A p \in Calls : CatchStep(p) =>
        /\ failedAttempts' \in 1..4
        /\ failedAttempts' = 1 => (retryTimeout' = 1000 /\ syncStatus' # "error")
        /\ failedAttempts' = 2 => (retryTimeout' = 3000 /\ syncStatus' # "error")
        /\ failedAttempts' = 3 => (retryTimeout' = 10000 /\ syncStatus' # "error")
        /\ failedAttempts' = 4 => (retryTimeout' = retryTimeout /\ syncStatus' = "error")]_vars

C5_Witness ==
    /\ syncStatus = "error"
    /\ failedAttempts = 4
    /\ ret = "false"

\* C6: the 'error' status always has its reset timer pending, so it returns
\* to 'idle' by itself.
C6_ErrorSelfHeals == syncStatus = "error" => errorResetTimeout # 0

\* C7: a push answered 401 ends the sync silently: status 'idle', flag
\* released, no retry armed, counter and Outbox untouched, no pull, false.
C7_Push401Silent ==
    [][\A p \in Calls : (pc[p] = "s_push" /\ ev' = <<"push", "401">>)
        => /\ syncStatus' = "idle"
           /\ ~syncInProgress'
           /\ retryTimeout' = retryTimeout
           /\ retryCount' = retryCount
           /\ errorResetTimeout' = errorResetTimeout
           /\ outbox' = outbox
           /\ lastSync' = lastSync
           /\ pc'[p] = "idle"
           /\ ret' = "false"]_vars

C7_Witness ==
    /\ ev = <<"push", "401">>
    /\ ret = "false"
    /\ syncStatus = "idle"
    /\ outbox # {}

\* C8: for the null or the local-only user sync() is a no-op resolving to
\* false, and queueChange by such a user calls no sync.
C8_AnonymousNoSync ==
    /\ [][(called' = "sync" /\ user # "authed")
            => /\ ret' = "false"
               /\ UNCHANGED <<syncStatus, outbox, lastSync, retryCount, syncInProgress,
                              pc, pending, errorResetTimeout>>]_vars
    /\ [][(qpc = "q_count" /\ qpc' = "idle" /\ user # "authed")
            => (called' = "none" /\ pc' = pc /\ outbox' = outbox)]_vars

C8_Witness ==
    /\ user = "local"
    /\ called = "sync"
    /\ ret = "false"
    /\ outbox # {}

\* C9: a step of sync() changes the stored watermark only when it completes
\* a 2xx pull whose tables have all been written.
C9_WatermarkOnlyAfterFullPull ==
    [][\A p \in Calls :
        (/\ pc[p] \in SyncPcs
         /\ pc'[p] # pc[p] \/ tablesLeft'[p] # tablesLeft[p]
         /\ lastSync' # lastSync)
        => /\ ret' = "true"
           /\ tablesLeft'[p] = 0
           /\ ev' \in {<<"pull", "ok">>, <<"pull", "put">>}]_vars

C9_Witness ==
    /\ ev = <<"pull", "put">>
    /\ ret = "true"
    /\ lastSync # 0

\* C10: while the status is 'syncing' a sync()/fullSync() is in flight or a
\* retry timer is pending.
C10_SyncingNeverRests ==
    syncStatus = "syncing" => (Busy # {} \/ retryTimeout # 0)

\* C11: once initSync() has registered the listeners, an offline -> online
\* transition with an authenticated user resets the attempt counter to 0 and
\* calls sync(), which starts an attempt unless one is in flight; with the
\* anonymous (or no) user the online event calls nothing and starts nothing.
C11_OnlineResetsAndSyncs ==
    [][(~onLine /\ onLine' /\ listening) =>
        IF user = "authed"
        THEN /\ retryCount' = 0
             /\ called' = "sync"
             /\ IF syncInProgress
                THEN ret' = "false" /\ pc' = pc
                ELSE /\ syncInProgress'
                     /\ \E p \in Calls : /\ pc[p] = "idle"
                                         /\ pc' = [pc EXCEPT ![p] = "s_read"]
        ELSE /\ called' = "none"
             /\ pc' = pc
             /\ UNCHANGED <<syncInProgress, syncStatus, retryCount>>]_vars

\* the online event has just started an attempt while a retry was still armed
C11_Witness ==
    /\ ev = <<"net", "online">>
    /\ user = "authed"
    /\ called = "sync"
    /\ retryCount = 0
    /\ retryTimeout # 0
    /\ \E p \in Calls : pc[p] = "s_read"

\* C12: once initSync() has registered the listeners, the offline event
\* cancels the pending retry (no retry timer is armed right after it) and
\* leaves the Outbox and the attempt counter as they were.
C12_OfflineCancelsRetry ==
    [][(onLine /\ ~onLine' /\ listening) =>
        /\ retryTimeout' = 0
        /\ outbox' = outbox
        /\ retryCount' = retryCount]_vars

\* the offline event has just cancelled a retry: attempts were counted, the
\* status still says syncing, nothing is in flight and no timer is armed
C12_Witness ==
    /\ ev = <<"net", "offline">>
    /\ listening
    /\ retryCount > 0
    /\ retryTimeout = 0
    /\ outbox # {}
    /\ Busy = {}
    /\ syncStatus = "syncing"

\* a step of fullSync(): its call, or one of its continuations
FullStep == called' = "fullSync" \/ (ev' # << >> /\ ev'[1] = "full")

\* C14 as stated: no step of fullSync() changes the Outbox or the pull
\* watermark lastSync.
C14_FullSyncBypassesWatermark ==
    [][FullStep => /\ outbox' = outbox
                   /\ lastSync' = lastSync]_vars

\* C14 amended: no step of fullSync() changes the Outbox (entries, key
\* counter, pending count); lastSync is written exactly by the step on which
\* fullSync() resolves to true, with the clock reading of that step.
C14_FullSyncKeepsOutbox ==
    [][FullStep => /\ outbox' = outbox
                   /\ nextOutboxId' = nextOutboxId
                   /\ pendingChanges' = pendingChanges
                   /\ ret' # "true" => lastSync' = lastSync
                   /\ ret' = "true" => lastSync' \in Clock]_vars

\* fullSync() has just resolved to true with entries waiting in the Outbox
C14_Witness ==
    /\ ev # << >>
    /\ ev[1] = "full"
    /\ ret = "true"
    /\ lastSync # 0
    /\ outbox # {}

\* what the body of the response holds for a local table
SnapshotOf(t) == IF t \in DOMAIN fsync.data THEN fsync.data[t] ELSE {}

\* C13: when fullSync() has just resolved to true, every local domain table
\* holds exactly the records the snapshot has for it.
C13_FullSyncReplacesEveryTable ==
    (ret = "true" /\ ev # << >> /\ ev[1] = "full")
        => \A t \in LocalTables : tables[t] = SnapshotOf(t)

\* C15: the values generateLocalId() has returned in this process are
\* -1, -2, -3, ... in this order: the first is -1, each is one less than the
\* one before, none is returned twice.
C15_LocalIdsDecreaseFromMinusOne ==
    /\ \A i \in DOMAIN issued : issued[i] = -i
    /\ localIdCounter = -(Len(issued) + 1)

\* two operations that both allocated ids are in progress at once
C15_Witness ==
    /\ Len(issued) >= 3
    /\ \E s, r \in Slots : /\ s # r
                           /\ ops[s].kind = "createWorkoutLocal"
                           /\ ops[r].kind = "completeWorkoutLocal"
                           /\ ops[r].w # << >>
                           /\ ops[r].w[1] = "sets"

\* the Outbox entries for the write w = <<table, id, action>>
EntriesFor(w) == {r \in outbox : <<r.table, r.recordId, r.action>> = w}

\* C16: when no local-store operation is in progress, every committed
\* domain-table write has exactly one Outbox entry for its table, record id
\* and action, also after a storage failure or a process exit.
C16_EveryWriteQueued ==
    (\A s \in Slots : ops[s].kind = "none")
        => \A w \in BagToSet(committed) :
               Cardinality(EntriesFor(w)) = CopiesIn(w, committed)

\* C17: a push request processed a second time leaves the server's tables as
\* the first processing left them.
C17_RedeliveryIdempotent ==
    delivered = 2 => srv = afterOnce

\* C18: a record created locally, pushed (alone, once) and pulled back comes
\* back equal to the local record, field by field.
C18_RoundTripEqual ==
    (/\ pulled.done
     /\ delivered = 1
     /\ Len(changes) = 1
     /\ changes[1].action = "create")
        => \A r \in pulled.changes[changes[1].table] :
               r.id = changes[1].recordId => r = changes[1].data

\* this owner's completed workouts of the programme's templates, the only
\* rows the walk of the cycle tracker looks at
Relevant(T) ==
    {w \in dbWorkouts : w.user_id = Me /\ w.completed_at # 0 /\ w.template_id \in T}

\* templates of the viewed programme
ViewedTemplates == {t.id : t \in {r \in dbTemplates : r.programme_id = ViewedProgramme}}

\* the history, newest first, as template ids
History(rows) ==
    LET n == Cardinality(rows)
        order == CHOOSE h \in [1..n -> rows] :
                     /\ \A i, j \in 1..n : i # j => h[i] # h[j]
                     /\ \A i, j \in 1..n : i < j => Newer(h[i], h[j])
    IN  [i \in 1..n |-> order[i].template_id]

\* positions from..to of h exist and hold pairwise different templates
DistinctRun(h, from, to) ==
    /\ to <= Len(h)
    /\ \A i, j \in from..to : i # j => h[i] # h[j]

\* the walk stated without a loop: the closed laps are the leading blocks of
\* |T| pairwise different templates, the current lap is the longest run of
\* pairwise different templates after them
LapsOf(h, n) ==
    CHOOSE k \in 0..Len(h) :
        /\ \A j \in 1..k : DistinctRun(h, (j - 1) * n + 1, j * n)
        /\ ~DistinctRun(h, k * n + 1, (k + 1) * n)

CurrentLapOf(h, n) ==
    LET start == LapsOf(h, n) * n + 1
        stop == CHOOSE e \in (start - 1)..Len(h) :
                    /\ DistinctRun(h, start, e)
                    /\ e < Len(h) => ~DistinctRun(h, start, e + 1)
    IN  {h[i] : i \in start..stop}

ExpectedProgress(T, rows) ==
    IF T = {}
    THEN [completedIds |-> {}, totalTemplates |-> 0, cycleComplete |-> FALSE,
          currentCycle |-> 0]
    ELSE LET h == History(rows)
             n == Cardinality(T)
         IN  [completedIds |-> CurrentLapOf(h, n),
              totalTemplates |-> n,
              cycleComplete |-> Cardinality(CurrentLapOf(h, n)) = n,
              currentCycle |-> LapsOf(h, n)]

\* T = {A, B, C} = {1, 2, 3} in programme 1, a fourth template elsewhere
ExampleTemplates ==
    {[id |-> i, programme_id |-> ViewedProgramme] : i \in 1..3}
        \cup {[id |-> 4, programme_id |-> 2]}

\* history, newest first, [A, C, B, A, C, B, A], among an in-progress workout,
\* a workout of another owner and a workout of a template outside T
ExampleWorkouts ==
    LET newestFirst == <<1, 3, 2, 1, 3, 2, 1>>
    IN  {[id |-> i, user_id |-> Me, template_id |-> newestFirst[i],
          completed_at |-> 8 - i] : i \in 1..7}
            \cup {[id |-> 8, user_id |-> Me, template_id |-> 1, completed_at |-> 0],
                  [id |-> 9, user_id |-> Other, template_id |-> 1, completed_at |-> 9],
                  [id |-> 10, user_id |-> Me, template_id |-> 4, completed_at |-> 10]}

\* C19: calculateCycleProgress returns the result of the backward walk over
\* this owner's completed workouts with template in T (zero-result for empty
\* T, stop at the first repeat in the current lap, count and reset on |T|
\* distinct templates); in-progress workouts, other owners' workouts and
\* templates outside T do not count; T = {A,B,C} with history
\* [A,C,B,A,C,B,A] gives completed {A}, cycleComplete false, currentCycle 2.
C19_BackwardWalk ==
    /\ progress # << >>
           => progress[1] = ExpectedProgress(ViewedTemplates, Relevant(ViewedTemplates))
    /\ calculateCycleProgress(ExampleTemplates, ExampleWorkouts, Me, ViewedProgramme)
           = [completedIds |-> {1}, totalTemplates |-> 3, cycleComplete |-> FALSE,
              currentCycle |-> 2]

C19_Witness ==
    /\ progress # << >>
    /\ progress[1].currentCycle = 1
    /\ progress[1].completedIds # {}
    /\ Cardinality(Relevant(ViewedTemplates)) = 3
    /\ dbWorkouts \ Relevant(ViewedTemplates) # {}

\* C20: for a programme with at least one template whose history is exactly
\* one completed workout of each of its templates, calculateCycleProgress
\* reports cycleComplete = true.
C20_CompleteAfterOneOfEach ==
    (/\ progress # << >>
     /\ ViewedTemplates # {}
     /\ Cardinality(Relevant(ViewedTemplates)) = Cardinality(ViewedTemplates)
     /\ {w.template_id : w \in Relevant(ViewedTemplates)} = ViewedTemplates)
        => progress[1].cycleComplete

\* the sets of the viewed exercise in the most recent completed workout of
\* this owner that logged it
LastLogged == getLastSetsForExercise(dbWorkouts, dbSets, Me, ViewedExercise)

\* the templates of the viewed template's programme
LapTemplates == {t.id : t \in {r \in dbTemplates : r.programme_id = 1}}

\* every template of the programme has been done once, and that is the whole
\* history: the lap is closed and the new lap's completed set is empty
LapJustClosed ==
    /\ LapTemplates # {}
    /\ Cardinality(Relevant(LapTemplates)) = Cardinality(LapTemplates)
    /\ {w.template_id : w \in Relevant(LapTemplates)} = LapTemplates

\* C21: for an exercise with history, when the cycle is complete and the
\* template is not yet in the new lap's completed set, calculateDisplayWeight
\* returns the most recent actual weight plus the configured increment with
\* incrementApplied = true.
C21_IncrementOnClosedLap ==
    (/\ prefill # << >>
     /\ prefill[1].dynamicWeight # << >>
     /\ LastLogged # << >>
     /\ LapJustClosed)
        => /\ prefill[1].dynamicWeight[1].incrementApplied
           /\ prefill[1].dynamicWeight[1].weight
                  = LastLogged[1].weight + IncrementOf(templateExercise)

\* the lap-completion increment was not applied to the viewed exercise
NoIncrement ==
    \/ prefill[1].dynamicWeight = << >>
    \/ ~prefill[1].dynamicWeight[1].incrementApplied

\* C22: when the lap-completion increment does not apply, set position i is
\* pre-filled with the weight and reps of position i of the most recent
\* completed workout that logged the exercise, or with the template's target
\* for position i where that workout has no position i, whether or not the
\* template belongs to a programme.
C22_PrefillByPosition ==
    (prefill # << >> /\ NoIncrement)
        => \A idx \in 1..Len(templateExercise.sets_data) :
               prefill[1].sets[idx] =
                   IF idx <= Len(LastLogged)
                   THEN [reps |-> LastLogged[idx].reps, weight |-> LastLogged[idx].weight]
                   ELSE templateExercise.sets_data[idx]

ActiveProgrammes == {q \in dbProgrammes : q.user_id = Me /\ q.is_active # 0}

\* C23: the local store never holds two programmes of one owner with the
\* active flag set, whatever saveProgramme, activateProgramme and
\* deleteProgramme calls are made, also beside a sync() whose pull upserts the
\* server's programme records.
C23_AtMostOneActive ==
    Cardinality(ActiveProgrammes) <= 1

\* schedule entries of this owner on day d
EntriesOn(d) == {r \in dbSchedule : r.user_id = Me /\ r.day_of_week = d}

\* C24: the local store never holds two schedule entries of one owner for
\* the same day of the week, whatever saveTemplateWithExercises and
\* deleteTemplateWithExercises calls are made.
C24_OneEntryPerDay ==
    \A d \in Days : Cardinality(EntriesOn(d)) <= 1

\* the Outbox entries the step appended
Added == SubSeq(queue', Len(queue) + 1, Len(queue'))

\* position in Added of the delete entry for a record
DeleteAt(table, id) == {k \in 1..Len(Added) : Added[k] = Removal(table, id)}

\* records of a table the step removed
Gone(before, after) == {r \in before : r.id \notin {x.id : x \in after}}

\* the step removed programme p with everything under it and queued the
\* deletes dependants first, programme last
Cascaded(p) ==
    LET templates == Gone(dbTemplates, dbTemplates')
        exercises == Gone(dbTemplateExercises, dbTemplateExercises')
        entries == Gone(dbSchedule, dbSchedule')
    IN  /\ \A q \in dbProgrammes' : q.id # p
        /\ \A t \in dbTemplates' : t.programme_id # p
        /\ templates = {t \in dbTemplates : t.programme_id = p}
        /\ \A r \in dbTemplateExercises' \cup dbSchedule' :
               r.template_id \notin {t.id : t \in templates}
        /\ Len(Added) = 1 + Cardinality(templates) + Cardinality(exercises)
                          + Cardinality(entries)
        /\ \A t \in templates : Cardinality(DeleteAt("templates", t.id)) = 1
        /\ \A r \in exercises : Cardinality(DeleteAt("templateExercises", r.id)) = 1
        /\ \A r \in entries : Cardinality(DeleteAt("schedule", r.id)) = 1
        /\ DeleteAt("programmes", p) = {Len(Added)}
        /\ \A t \in templates :
               /\ \A r \in exercises : r.template_id = t.id =>
                      \A a \in DeleteAt("templateExercises", r.id),
                         b \in DeleteAt("templates", t.id) : a < b
               /\ \A r \in entries : r.template_id = t.id =>
                      \A a \in DeleteAt("schedule", r.id),
                         b \in DeleteAt("templates", t.id) : a < b

OpenWorkouts == {w \in dbWorkouts : w.template_id = ViewedTemplate /\ w.completed_at = 0}

\* C25: after any sequence of starting, resuming, cancelling and finishing
\* sessions, a template has at most one workout whose completion time is null
C25_OneOpenWorkout == Cardinality(OpenWorkouts) <= 1

\* the Active-Session State records of the viewed template
SessionRecords == {r \in activeWorkout.rows : r.template_id = ViewedTemplate}

\* C26: in every reachable state a template has at most one Active-Session
\* State record, however many times saveProgress() ran
C26_OneSessionRecord == Cardinality(SessionRecords) <= 1

\* C27: no two set records of one workout share the exercise id and the set
\* number, after any session edits and any number of finishWorkout() calls
C27_UniqueSetNumbers ==
    \A a \in dbSets, b \in dbSets :
        (a.workout_id = b.workout_id /\ a.exercise_id = b.exercise_id
            /\ a.set_number = b.set_number) => a.id = b.id

\* logout() has run to its end and nobody has logged in since
LoggedOut == user = "local" /\ lpc = "idle"

\* C29: once logout has completed, and until the next login, the persisted
\* watermark is absent, the retry counter is 0 and no retry timer is pending,
\* whatever a sync that was in flight when logout was called does afterwards
C29_LogoutClearsSyncState ==
    LoggedOut => lastSync = 0 /\ retryCount = 0 /\ retryTimeout = 0

\* the tables that hold the user's data: all but the shared exercises
UserTables == LocalTables \ {"exercises"}

\* C30: after logout has returned, the local tables that hold user data are
\* all empty: programmes, templates, templateExercises, schedule, workouts,
\* sets, progression, outbox and activeWorkout
C30_LogoutEmptiesStore ==
    LoggedOut =>
        /\ \A t \in UserTables : tables[t] = {}
        /\ outbox = {}
        /\ activeWorkout.rows = {}

\* no sync(), fullSync(), queueChange() or logout() is between two of its awaits
Quiescent == (\A p \in Calls : pc[p] = "idle") /\ qpc = "idle" /\ lpc = "idle"

\* C36: whenever no engine or auth operation is in progress, the visible
\* pendingChanges counter equals the number of entries in the outbox
C36_CounterMatchesOutbox == Quiescent => pendingChanges = Cardinality(outbox)

\* C37: a sync() resolves to true only on the step that completes a 2xx pull
\* and stamps the watermark, and a 401 answer to its push or to its pull makes
\* it resolve to false
C37_TrueOnlyAfterPull ==
    [][\A p \in Calls :
        (pc[p] \in SyncPcs /\ pc'[p] = "idle")
        => /\ ret' = "true" => ev' \in {<<"pull", "ok">>, <<"pull", "put">>}
           /\ ev' \in {<<"push", "401">>, <<"pull", "401">>} => ret' = "false"]_vars

\* C38: sync() and fullSync() are never in flight together: a call of either
\* made while the other is in flight returns false and starts nothing, and
\* the syncInProgress flag is held exactly while a call is in flight, so every
\* exit path has released it
C38_SyncExcludesFullSync ==
    /\ [](~ \E p, q \in Calls : pc[p] \in SyncPcs /\ pc[q] \in FullPcs)
    /\ [](syncInProgress <=> \E p \in Calls : pc[p] # "idle")
    /\ [][(\/ called' = "fullSync" /\ \E p \in Calls : pc[p] \in SyncPcs
           \/ called' = "sync" /\ \E p \in Calls : pc[p] \in FullPcs)
            => (ret' = "false" /\ pc' = pc /\ syncInProgress')]_vars

\* login() called fullSync() while a sync() was in flight, and it was refused
C38_Witness ==
    /\ called = "fullSync"
    /\ ret = "false"
    /\ \E p \in Calls : pc[p] \in SyncPcs

\* the completed workouts of this owner that no other one is as recent as
NewestDone ==
    {w \in Relevant(ViewedTemplates) :
        \A o \in Relevant(ViewedTemplates) \ {w} : w.completed_at > o.completed_at}

\* C40: when calculateCycleProgress returns a non-empty completed set, the
\* template of the most recently completed workout is in it
C40_LapHoldsNewest ==
    (progress # << >> /\ progress[1].completedIds # {})
        => \A w \in NewestDone : w.template_id \in progress[1].completedIds

\* the workouts the step has deleted
Uncompleted == dbWorkouts \ dbWorkouts'

\* the step deleted workout w, its sets first, each with its Outbox entry
DeletedWithSets(w) ==
    LET sets == {r \in dbSets : r.workout_id = w.id}
    IN  /\ Uncompleted = {w}
        /\ \A o \in CompletedOf(w.template_id) : w.completed_at >= o.completed_at
        /\ dbSets' = dbSets \ sets
        /\ \E order \in [1..Cardinality(sets) -> sets] :
              /\ \A r \in sets : \E k \in 1..Cardinality(sets) : order[k] = r
              /\ queue' = queue
                     \o [k \in 1..Cardinality(sets) |-> Removal("sets", order[k].id)]
                     \o <<Removal("workouts", w.id)>>

\* C31: un-completing a template of the completed set deletes its most recent
\* completed workout and that workout's sets, each with an Outbox delete entry
\* and the sets before the workout, and the recalculated progress no longer
\* has the template in its completed set
C31_UncompleteRemovesTemplate ==
    [][\A w \in Uncompleted :
          /\ DeletedWithSets(w)
          /\ w.template_id \notin progress'[1].completedIds]_vars

\* the step appended a completed workout that is newer than all the others
AppendedNewest ==
    /\ dbWorkouts \subseteq dbWorkouts'
    /\ \E w \in dbWorkouts' \ dbWorkouts :
          /\ dbWorkouts' = dbWorkouts \cup {w}
          /\ \A o \in dbWorkouts : w.completed_at > o.completed_at

\* C39: the reported cycle count never decreases when one more completed
\* workout of a template of the programme is appended as the newest entry of
\* the history
C39_CycleCountMonotone ==
    [][AppendedNewest => progress'[1].currentCycle >= progress[1].currentCycle]_vars

\* the outcomes of a request the server did not accept
Refused == {<<"push", "fail">>, <<"pull", "fail">>}

\* C32: for an authenticated user on a device that stays online, once the
\* server accepts every request the Outbox is emptied again and again: every
\* entry is eventually pushed and removed, with no further user action
C32_OutboxDrains == <>[](ev \notin Refused) => []<>(outbox = {})

\* the step completed a sync() successfully and left the Outbox empty
SyncedClean == flight.pc = "apply" /\ flight'.pc = "idle" /\ queue' = << >>

\* C33: when a sync() has completed successfully and the Outbox is empty,
\* each synced local table holds exactly the server's records of the user: a
\* record deleted locally during the sync, or deleted on the server, is not
\* in the Local Store
C33_Convergence ==
    [][SyncedClean =>
          /\ dbProgrammes' = srv'.programmes
          /\ dbTemplates' = srv'.templates
          /\ dbTemplateExercises' = srv'.templateExercises
          /\ dbSchedule' = srv'.schedule]_vars

\* the step commits the put() of a record created under a generated local id
CreatesUnderLocalId(s) ==
    /\ ops[s].kind \in {"createWorkoutLocal", "completeWorkoutLocal"}
    /\ ops[s].pc = "write"
    /\ ops'[s].pc = "add"
    /\ ops[s].w[3] = "create"

\* C34: a record created under an id from generateLocalId() never takes the
\* id of a record its table already holds, also after a process restart, so
\* createWorkoutLocal and completeWorkoutLocal never overwrite a record
C34_NewIdsAreFresh ==
    [][\A s \in Slots :
          CreatesUnderLocalId(s) => ops[s].w[2] \notin tables[ops[s].w[1]]]_vars

\* the newest Outbox entry of its record is a create or an update
PendingWrite(i) ==
    /\ queue[i].action # "delete"
    /\ \A j \in (i + 1)..Len(queue) :
          ~(queue[j].table = queue[i].table /\ queue[j].recordId = queue[i].recordId)

\* C35: a record whose create or update is still in the Outbox is in the
\* Local Store with the queued value: the pull phase of sync() does not
\* remove or revert a local change that was not pushed yet
C35_PendingChangeIsLocal ==
    \A i \in DOMAIN queue : PendingWrite(i) => queue[i].data \in Store[queue[i].table]

====
